---- MODULE Spec2Model ----
(***************************************************************************)
(* Retrieval and context-assembly engine of the RAG pipeline:              *)
(*   - ContextEngineer (services/context_engineer.py), the staged pipeline *)
(*     that turns raw matches into the context handed to the generator;    *)
(*   - ChromaVectorStore and SupabaseVectorStore (databases.py), the two   *)
(*     vector store backends, and VectorStoreService on top of them.       *)
(*                                                                         *)
(* Text is a sequence of one-character strings, so that len(), slicing,    *)
(* lower(), strip(), split() and the regular expressions of the code are   *)
(* computed on the characters.  A relevance is an integer number of        *)
(* ten-thousandths (0.3 is 3000): one digit finer than the three decimals  *)
(* the backends round to.                                                  *)
(***************************************************************************)
EXTENDS Integers, Sequences, FiniteSets, Bags, TLC

\* ------------------------------------------------------------------ bounds
\* longest list of raw documents handed to engineer_context
MaxDocs == 4
\* most words in a generated query
MaxWords == 5
\* most chunks in one store_chunks call
MaxChunks == 2
\* largest limit passed to query
MaxLimit == 2

\* ------------------------------------------------------------------- text
Min(a, b) == IF a <= b THEN a ELSE b
Max(a, b) == IF a >= b THEN a ELSE b

\* the lower-case letter of every upper-case letter
UpperToLower ==
    [A |-> "a", B |-> "b", C |-> "c", D |-> "d", E |-> "e", F |-> "f", G |-> "g",
     H |-> "h", I |-> "i", J |-> "j", K |-> "k", L |-> "l", M |-> "m", N |-> "n",
     O |-> "o", P |-> "p", Q |-> "q", R |-> "r", S |-> "s", T |-> "t", U |-> "u",
     V |-> "v", W |-> "w", X |-> "x", Y |-> "y", Z |-> "z"]

\* str.lower() on one character
LowerChar(c) == IF c \in DOMAIN UpperToLower THEN UpperToLower[c] ELSE c

\* the sequence f as a tuple of its Len(f) elements
Tuple(f) == f \o <<>>

\* str.lower()
Lower(s) == Tuple([i \in 1..Len(s) |-> LowerChar(s[i])])

\* the characters \s matches and str.strip() / str.split() remove
Spaces == {" ", "\t", "\n"}
IsSpace(c) == c \in Spaces

\* s[:n]
Take(s, n) == SubSeq(s, 1, Min(n, Len(s)))

\* sub in s
Contains(sub, s) ==
    \E i \in 0..(Len(s) - Len(sub)) : SubSeq(s, i + 1, i + Len(sub)) = sub

\* str.strip()
Strip(s) ==
    LET n == Len(s)
    IN  IF \A i \in 1..n : IsSpace(s[i]) THEN <<>>
        ELSE LET first == CHOOSE i \in 1..n :
                              ~IsSpace(s[i]) /\ \A j \in 1..(i - 1) : IsSpace(s[j])
                 back  == CHOOSE k \in 0..(n - 1) :
                              ~IsSpace(s[n - k]) /\ \A j \in 0..(k - 1) : IsSpace(s[n - j])
             IN  SubSeq(s, first, n - back)

\* the elements of a finite set of integers in increasing order
RECURSIVE SortedSeq(_)
SortedSeq(S) ==
    IF S = {} THEN <<>>
    ELSE LET m == CHOOSE x \in S : \A y \in S : x <= y
         IN  <<m>> \o SortedSeq(S \ {m})

\* the maximal runs of characters of s that are not separators, in order
Runs(s, separators) ==
    LET starts == {i \in 1..Len(s) :
                      s[i] \notin separators /\ (i = 1 \/ s[i - 1] \in separators)}
        EndOf(i) == CHOOSE j \in i..Len(s) : j = Len(s) \/ s[j + 1] \in separators
        ord == SortedSeq(starts)
    IN  Tuple([k \in 1..Len(ord) |-> SubSeq(s, ord[k], EndOf(ord[k]))])

\* str.split() with no argument: the whitespace-separated words
Split(s) == Runs(s, Spaces)

\* re.sub(r'\s+', ' ', s): every run of whitespace becomes one blank
CollapseSpaces(s) ==
    LET pairs == [i \in 1..Len(s) |->
                    <<IF i = 1 THEN "" ELSE s[i - 1], s[i]>>]
        kept  == SelectSeq(pairs, LAMBDA p : ~(IsSpace(p[2]) /\ IsSpace(p[1])))
    IN  Tuple([i \in 1..Len(kept) |->
                  IF IsSpace(kept[i][2]) THEN " " ELSE kept[i][2]])

\* s repeated n times
Repeat(s, n) == Tuple([i \in 1..(n * Len(s)) |-> s[((i - 1) % Len(s)) + 1]])

\* " ".join(words)
RECURSIVE Join(_)
Join(words) ==
    IF words = <<>> THEN <<>>
    ELSE IF Len(words) = 1 THEN words[1]
    ELSE words[1] \o <<" ">> \o Join(Tail(words))

\* dict.get(key, default)
Get(d, key, default) == IF key \in DOMAIN d THEN d[key] ELSE default

\* d[key] = value, on a copy
Put(d, key, value) == (key :> value) @@ d

\* the sequences without repetition of at most n elements of S
RECURSIVE Arrangements(_, _)
Arrangements(S, n) ==
    IF n = 0 THEN {<<>>}
    ELSE LET shorter == Arrangements(S, n - 1)
         IN  shorter \cup
             {Append(a, x) : <<a, x>> \in
                 {p \in shorter \X S :
                     /\ Len(p[1]) = n - 1
                     /\ \A i \in 1..Len(p[1]) : p[1][i] # p[2]}}

\* all sequences of at most n elements of S
RECURSIVE SeqsUpTo(_, _)
SeqsUpTo(S, n) ==
    IF n = 0 THEN {<<>>}
    ELSE LET shorter == SeqsUpTo(S, n - 1)
         IN  shorter \cup
             {Append(a, x) : <<a, x>> \in {p \in shorter \X S : Len(p[1]) = n - 1}}

\* stable sort of seq by decreasing key, as sorted(..., key=..., reverse=True);
\* keys[i] is the key of seq[i]
SortDesc(seq, keys) ==
    LET Pos(i) == 1 + Cardinality({j \in 1..Len(seq) :
                        \/ keys[j] > keys[i]
                        \/ (keys[j] = keys[i] /\ j < i)})
    IN  Tuple([k \in 1..Len(seq) |-> seq[CHOOSE i \in 1..Len(seq) : Pos(i) = k]])

\* ------------------------------------------------------------ input texts
\* "Labor starts with contractions. " (32 characters)
SentLabor ==
    <<"L", "a", "b", "o", "r", " ", "s", "t", "a", "r", "t", "s", " ", "w", "i",
      "t", "h", " ", "c", "o", "n", "t", "r", "a", "c", "t", "i", "o", "n", "s",
      ".", " ">>
\* "Placenta previa is rare? " (25 characters)
SentPrevia ==
    <<"P", "l", "a", "c", "e", "n", "t", "a", " ", "p", "r", "e", "v", "i", "a",
      " ", "i", "s", " ", "r", "a", "r", "e", "?", " ">>
\* "Epidural vs spinal differ! Ask why." (35 characters)
TailSpinal ==
    <<"E", "p", "i", "d", "u", "r", "a", "l", " ", "v", "s", " ", "s", "p", "i",
      "n", "a", "l", " ", "d", "i", "f", "f", "e", "r", "!", " ", "A", "s", "k",
      " ", "w", "h", "y", ".">>
\* "How does Labor start?  It STARTS slowly.\tCall a doula!" (54 characters)
TextShort ==
    <<"H", "o", "w", " ", "d", "o", "e", "s", " ", "L", "a", "b", "o", "r", " ",
      "s", "t", "a", "r", "t", "?", " ", " ", "I", "t", " ", "S", "T", "A", "R",
      "T", "S", " ", "s", "l", "o", "w", "l", "y", ".", "\t", "C", "a", "l", "l",
      " ", "a", " ", "d", "o", "u", "l", "a", "!">>
\* " how does labor start? it starts \n slowly. call a DOULA! " (57 characters):
\* TextShort up to case and whitespace
TextShortDup ==
    <<" ", "h", "o", "w", " ", "d", "o", "e", "s", " ", "l", "a", "b", "o", "r",
      " ", "s", "t", "a", "r", "t", "?", " ", "i", "t", " ", "s", "t", "a", "r",
      "t", "s", " ", "\n", " ", "s", "l", "o", "w", "l", "y", ".", " ", "c", "a",
      "l", "l", " ", "a", " ", "D", "O", "U", "L", "A", "!", " ">>
\* "vs"
TextTiny == <<"v", "s">>
\* 416 characters, 104 estimated tokens
TextLongA == Repeat(SentLabor, 13)
\* the first 200 characters of TextLongA, then another ending: 235 characters
TextLongB == Take(TextLongA, 200) \o TailSpinal
\* 100 characters, 25 estimated tokens
TextMid == Repeat(SentPrevia, 4)

\* the six queries the specification classifies
QueryWhat ==
    <<"W", "h", "a", "t", " ", "i", "s", " ", "p", "l", "a", "c", "e", "n", "t",
      "a", " ", "p", "r", "e", "v", "i", "a", "?">>
QueryHow ==
    <<"H", "o", "w", " ", "d", "o", "e", "s", " ", "l", "a", "b", "o", "r", " ",
      "s", "t", "a", "r", "t", "?">>
QueryCompare ==
    <<"C", "o", "m", "p", "a", "r", "e", " ", "e", "p", "i", "d", "u", "r", "a",
      "l", " ", "v", "s", " ", "s", "p", "i", "n", "a", "l", " ", "a", "n", "e",
      "s", "t", "h", "e", "s", "i", "a">>
QueryShould ==
    <<"S", "h", "o", "u", "l", "d", " ", "I", " ", "g", "e", "t", " ", "a", " ",
      "d", "o", "u", "l", "a", "?">>
QueryPrevia ==
    <<"p", "l", "a", "c", "e", "n", "t", "a", " ", "p", "r", "e", "v", "i", "a">>
QueryTell ==
    <<"T", "e", "l", "l", " ", "m", "e", " ", "a", "b", "o", "u", "t", " ", "y",
      "o", "u", "r", " ", "d", "a", "y">>
LiteralQueries ==
    {QueryWhat, QueryHow, QueryCompare, QueryShould, QueryPrevia, QueryTell}

\* the words generated queries are made of: one keyword of each rule in some
\* case, a word that only contains a keyword, and a word that matches no rule
QueryWords ==
    {<<"W", "h", "o">>, <<"W", "H", "Y">>, <<"v", "s">>, <<"a", "d", "v", "i", "c", "e">>,
     <<"s", "h", "o", "w">>, <<"d", "a", "y">>}

\* the words joined by blanks, with a question mark when asked
MakeQuery(words, question) ==
    IF question THEN Join(words) \o <<"?">> ELSE Join(words)

GeneratedQueries ==
    {MakeQuery(ws, q) : <<ws, q>> \in SeqsUpTo(QueryWords, MaxWords) \X BOOLEAN}

\* the texts of the documents and chunks below
Contents == {TextShort, TextShortDup, TextTiny, TextLongA, TextLongB, TextMid}

\* the function f with every value computed
Table(f) == f @@ <<>>

\* a value computed once for the texts above and on demand for any other
Cached(table, key, value) == IF key \in DOMAIN table THEN table[key] ELSE value

\* -------------------------------------------------------- ContextEngineer
\* the query types _detect_query_type returns
QueryTypes ==
    {"factual", "explanatory", "analytical", "advisory", "search", "conversational"}

\* the keyword lists of _detect_query_type, in the order of its branches
FactualWords ==
    {<<"w", "h", "a", "t">>, <<"w", "h", "i", "c", "h">>, <<"w", "h", "o">>,
     <<"w", "h", "e", "n">>, <<"w", "h", "e", "r", "e">>}
ExplanatoryWords == {<<"h", "o", "w">>, <<"w", "h", "y">>}
AnalyticalWords ==
    {<<"c", "o", "m", "p", "a", "r", "e">>,
     <<"d", "i", "f", "f", "e", "r", "e", "n", "c", "e">>,
     <<"v", "e", "r", "s", "u", "s">>, <<"v", "s">>}
AdvisoryWords ==
    {<<"s", "h", "o", "u", "l", "d">>,
     <<"r", "e", "c", "o", "m", "m", "e", "n", "d">>,
     <<"s", "u", "g", "g", "e", "s", "t">>, <<"a", "d", "v", "i", "c", "e">>}

\* any(q in query_lower for q in words)
AnyIn(words, text) == \E w \in words : Contains(w, text)

\* a variant of _detect_query_type that tests how/why before what/which/...
DetectExplanatoryFirst(query) ==
    LET query_lower == Lower(query)
    IN  IF AnyIn(ExplanatoryWords, query_lower) THEN "explanatory"
        ELSE IF AnyIn(FactualWords, query_lower) THEN "factual"
        ELSE IF AnyIn(AnalyticalWords, query_lower) THEN "analytical"
        ELSE IF AnyIn(AdvisoryWords, query_lower) THEN "advisory"
        ELSE IF ~Contains(<<"?">>, query) /\ Len(Split(query)) < 5 THEN "search"
        ELSE "conversational"

_detect_query_type(query) ==
    LET query_lower == Lower(query)
    IN  IF AnyIn(FactualWords, query_lower) THEN "factual"
        ELSE IF AnyIn(ExplanatoryWords, query_lower) THEN "explanatory"
        ELSE IF AnyIn(AnalyticalWords, query_lower) THEN "analytical"
        ELSE IF AnyIn(AdvisoryWords, query_lower) THEN "advisory"
        ELSE IF ~Contains(<<"?">>, query) /\ Len(Split(query)) < 5 THEN "search"
        ELSE "conversational"

\* a variant of _filter_by_relevance that keeps every document
FilterKeepsAll(self, documents) == documents

_filter_by_relevance(self, documents) ==
    SelectSeq(documents,
              LAMBDA doc : Get(doc, "relevance_score", 0) >= self.min_relevance_score)

\* the length of the prefix _create_fingerprint keeps
FingerprintChars == 200

\* normalized = re.sub(r'\s+', ' ', text.lower().strip()); normalized[:200]
NormalizedPrefix(text) ==
    Take(CollapseSpaces(Strip(Lower(text))), FingerprintChars)

FingerprintCache == Table([text \in Contents |-> NormalizedPrefix(text)])

_create_fingerprint(text) == Cached(FingerprintCache, text, NormalizedPrefix(text))

\* the loop of _deduplicate_documents from position i on
RECURSIVE DedupLoop(_, _, _, _)
DedupLoop(documents, i, seen_content, unique_docs) ==
    IF i > Len(documents) THEN unique_docs
    ELSE LET fingerprint == _create_fingerprint(Get(documents[i], "content", <<>>))
         IN  IF fingerprint \notin seen_content
             THEN DedupLoop(documents, i + 1, seen_content \cup {fingerprint},
                            Append(unique_docs, documents[i]))
             ELSE DedupLoop(documents, i + 1, seen_content, unique_docs)

\* a variant of _deduplicate_documents that removes duplicates from the list
\* it is iterating over, so that the element after a removed one is skipped
RECURSIVE DedupRemoveInPlace(_, _, _)
DedupRemoveInPlace(documents, i, seen_content) ==
    IF i > Len(documents) THEN documents
    ELSE LET fingerprint == _create_fingerprint(Get(documents[i], "content", <<>>))
         IN  IF fingerprint \notin seen_content
             THEN DedupRemoveInPlace(documents, i + 1, seen_content \cup {fingerprint})
             ELSE DedupRemoveInPlace(
                      SubSeq(documents, 1, i - 1) \o SubSeq(documents, i + 1, Len(documents)),
                      i + 1, seen_content)

DedupSkipping(documents) == DedupRemoveInPlace(documents, 1, {})

_deduplicate_documents(documents) ==
    IF documents = <<>> THEN documents
    ELSE DedupLoop(documents, 1, {}, <<>>)

\* the authority boost of _rank_documents, 0.1
AuthorityBoost == 1000

\* calculate_rank_score, the sort key of _rank_documents
calculate_rank_score(doc, source_metadata) ==
    LET relevance == Get(doc, "relevance_score", 0)
        source_id == Get(doc, "source_id", "")
        source_info == Get(source_metadata, source_id, <<>>)
        authority_boost ==
            IF Get(source_info, "is_authoritative", FALSE) THEN AuthorityBoost ELSE 0
        recency_boost == 0
    IN  relevance + authority_boost + recency_boost

\* a variant of _rank_documents that numbers the documents without sorting
RankUnsorted(documents, query, source_metadata) ==
    Tuple([i \in 1..Len(documents) |-> Put(documents[i], "rank_position", i)])

_rank_documents(documents, query, source_metadata) ==
    LET scores == Tuple([i \in 1..Len(documents) |->
                            calculate_rank_score(documents[i], source_metadata)])
        ranked == SortDesc(documents, scores)
    IN  Tuple([i \in 1..Len(ranked) |-> Put(ranked[i], "rank_position", i)])

\* the characters of the class [.!?] that _compress_documents splits on
SentenceEnds == {".", "!", "?"}

\* the range of a sequence
Range(seq) == {seq[i] : i \in 1..Len(seq)}

\* the number of excerpts _compress_documents keeps
TopSentences == 3

\* the body of the loop of _compress_documents: the excerpts of one content
ImportantExcerpts(content, query) ==
    LET query_terms == Range(Split(Lower(query)))
        sentences == SelectSeq(Runs(content, SentenceEnds),
                               LAMBDA sentence : Strip(sentence) # <<>>)
        scored_sentences ==
            Tuple([k \in 1..Len(sentences) |->
                <<Cardinality(query_terms \cap Range(Split(Lower(sentences[k])))),
                  Strip(sentences[k])>>])
        sorted == SortDesc(scored_sentences,
                          Tuple([k \in 1..Len(scored_sentences) |->
                                    scored_sentences[k][1]]))
    IN  Tuple([k \in 1..Min(TopSentences, Len(sorted)) |-> sorted[k][2]])

ExcerptsCache ==
    Table([p \in Contents \X LiteralQueries |-> ImportantExcerpts(p[1], p[2])])

_compress_documents(documents, query) ==
    Tuple([i \in 1..Len(documents) |->
        LET content == Get(documents[i], "content", <<>>)
        IN  Put(documents[i], "important_excerpts",
                Cached(ExcerptsCache, <<content, query>>,
                       ImportantExcerpts(content, query)))])

\* the number of entries below which _diversify_sources accepts a repeated source
DiversifyFill == 3

\* the loop of _diversify_sources from position i on
RECURSIVE DiversifyLoop(_, _, _, _)
DiversifyLoop(documents, i, seen_sources, diversified) ==
    IF i > Len(documents) THEN diversified
    ELSE LET source_id == Get(documents[i], "source_id", "None")
         IN  IF source_id \notin seen_sources
             THEN DiversifyLoop(documents, i + 1, seen_sources \cup {source_id},
                                Append(diversified, documents[i]))
             ELSE IF Len(diversified) < DiversifyFill
             THEN DiversifyLoop(documents, i + 1, seen_sources,
                                Append(diversified, documents[i]))
             ELSE DiversifyLoop(documents, i + 1, seen_sources, diversified)

_diversify_sources(documents) == DiversifyLoop(documents, 1, {}, <<>>)

\* the slice sizes of _assemble_by_query_type
FactualCount == 3
ExplanatoryCount == 5
AnalyticalCount == 5
AdvisoryCount == 4
GeneralCount == 4

\* the slicing left out
AssembleUnsliced(documents, query_type) ==
    IF query_type = "analytical" THEN _diversify_sources(documents) ELSE documents

_assemble_by_query_type(documents, query_type) ==
    IF query_type = "factual" THEN Take(documents, FactualCount)
    ELSE IF query_type = "explanatory" THEN Take(documents, ExplanatoryCount)
    ELSE IF query_type = "analytical"
    THEN Take(_diversify_sources(documents), AnalyticalCount)
    ELSE IF query_type = "advisory" THEN Take(documents, AdvisoryCount)
    ELSE Take(documents, GeneralCount)

\* characters per estimated token
CharsPerToken == 4

_estimate_doc_tokens(doc) == Len(Get(doc, "content", <<>>)) \div CharsPerToken

RECURSIVE _estimate_tokens(_)
_estimate_tokens(documents) ==
    IF documents = <<>> THEN 0
    ELSE _estimate_doc_tokens(Head(documents)) + _estimate_tokens(Tail(documents))

\* the marker _truncate_document appends
Ellipsis == <<".", ".", ".">>

\* a variant of _truncate_document that returns the copy uncut
TruncateKeepsAll(doc, max_tokens) == doc

_truncate_document(doc, max_tokens) ==
    LET content == Get(doc, "content", <<>>)
        max_chars == max_tokens * CharsPerToken
    IN  IF Len(content) > max_chars
        THEN Put(Put(doc, "content", Take(content, max_chars) \o Ellipsis),
                 "truncated", TRUE)
        ELSE doc

\* the remaining budget above which _fit_token_budget appends a truncated copy
TruncateFloor == 100

\* the loop of _fit_token_budget from position i on
RECURSIVE FitLoop(_, _, _, _, _)
FitLoop(self, documents, i, token_count, fitted) ==
    IF i > Len(documents) THEN fitted
    ELSE LET doc_tokens == _estimate_doc_tokens(documents[i])
             remaining_tokens == self.max_context_tokens - token_count
         IN  IF token_count + doc_tokens <= self.max_context_tokens
             THEN FitLoop(self, documents, i + 1, token_count + doc_tokens,
                          Append(fitted, documents[i]))
             ELSE IF remaining_tokens > TruncateFloor
             THEN Append(fitted, _truncate_document(documents[i], remaining_tokens))
             ELSE fitted

\* the loop without its break: documents after the overflowing one still tried
RECURSIVE FitLoopSkipping(_, _, _, _, _)
FitLoopSkipping(self, documents, i, token_count, fitted) ==
    IF i > Len(documents) THEN fitted
    ELSE LET doc_tokens == _estimate_doc_tokens(documents[i])
         IN  IF token_count + doc_tokens <= self.max_context_tokens
             THEN FitLoopSkipping(self, documents, i + 1, token_count + doc_tokens,
                                  Append(fitted, documents[i]))
             ELSE FitLoopSkipping(self, documents, i + 1, token_count, fitted)
FitSkipping(self, documents) == FitLoopSkipping(self, documents, 1, 0, <<>>)

_fit_token_budget(self, documents) == FitLoop(self, documents, 1, 0, <<>>)

_enrich_metadata(documents, source_metadata) ==
    LET Enrich(doc) ==
            LET source_id == Get(doc, "source_id", "")
            IN  IF source_id \in DOMAIN source_metadata
                THEN LET meta == source_metadata[source_id]
                     IN  Put(Put(Put(doc,
                             "source_name", Get(meta, "display_name", source_id)),
                             "source_type", Get(meta, "type", "unknown")),
                             "source_authority", Get(meta, "is_authoritative", FALSE))
                ELSE doc
    IN  Tuple([i \in 1..Len(documents) |-> Enrich(documents[i])])

\* the value of an argument that was not given
None == "None"

\* a variant of the context_stats record with two counts exchanged
StatsExchanged(raw_documents, filtered_docs, enriched_docs) ==
    [original_count |-> Len(raw_documents),
     filtered_count |-> Len(enriched_docs),
     final_count |-> Len(filtered_docs),
     estimated_tokens |-> _estimate_tokens(enriched_docs)]

\* the context_stats record engineer_context returns
ContextStats(raw_documents, filtered_docs, enriched_docs) ==
    [original_count |-> Len(raw_documents),
     filtered_count |-> Len(filtered_docs),
     final_count |-> Len(enriched_docs),
     estimated_tokens |-> _estimate_tokens(enriched_docs)]

\* the caller's document records after the call: _rank_documents writes
\* rank_position into the records it was given, which are the caller's
\* (the records of one raw list are pairwise different)
RawAfterCall(raw_documents, ranked) ==
    Tuple([i \in 1..Len(raw_documents) |->
        IF \E k \in 1..Len(ranked) :
               ranked[k] = Put(raw_documents[i], "rank_position", k)
        THEN Put(raw_documents[i], "rank_position",
                 CHOOSE k \in 1..Len(ranked) :
                     ranked[k] = Put(raw_documents[i], "rank_position", k))
        ELSE raw_documents[i]])

\* steps 5 to 8 of engineer_context and its return value
EngineerFromRanked(self, query, raw_documents, query_type, source_metadata, filtered_docs, ranked) ==
    LET ranked_docs == IF self.enable_compression
                       THEN _compress_documents(ranked, query) ELSE ranked
        assembled_docs == _assemble_by_query_type(ranked_docs, query_type)
        final_docs == _fit_token_budget(self, assembled_docs)
        enriched_docs == _enrich_metadata(final_docs, source_metadata)
    IN  [returned |->
            [documents |-> enriched_docs,
             query_type |-> query_type,
             context_stats |-> ContextStats(raw_documents, filtered_docs, enriched_docs)],
         raw_documents |-> RawAfterCall(raw_documents, ranked)]

\* steps 3 and 4 of engineer_context, then the rest
EngineerFromFiltered(self, query, raw_documents, query_type, source_metadata, filtered) ==
    LET filtered_docs == IF self.enable_deduplication
                         THEN _deduplicate_documents(filtered) ELSE filtered
    IN  EngineerFromRanked(self, query, raw_documents, query_type, source_metadata,
                           filtered_docs,
                           _rank_documents(filtered_docs, query, source_metadata))

\* one call of engineer_context: what it returns and what it leaves in the
\* caller's records
CallEngineerContext(self, query, raw_documents, query_type_arg, source_metadata) ==
    EngineerFromFiltered(self, query, raw_documents,
                         IF query_type_arg = None
                         THEN _detect_query_type(query) ELSE query_type_arg,
                         source_metadata,
                         _filter_by_relevance(self, raw_documents))

engineer_context(self, query, raw_documents, query_type_arg, source_metadata) ==
    CallEngineerContext(self, query, raw_documents, query_type_arg,
                        source_metadata).returned

\* ----------------------------------------------------------------- inputs
\* the raw matches engineer_context is called with
DocShortA == [source_id |-> "A", page_number |-> 0, content |-> TextShort,
              relevance_score |-> 9000]
DocShortB == [source_id |-> "B", page_number |-> 1, content |-> TextShortDup,
              relevance_score |-> 8800]
DocMidB   == [source_id |-> "B", page_number |-> 3, content |-> TextMid,
              relevance_score |-> 8500]
DocTinyC  == [source_id |-> "C", page_number |-> 1, content |-> TextTiny,
              relevance_score |-> 6000]
DocLongC  == [source_id |-> "C", page_number |-> 0, content |-> TextLongB,
              relevance_score |-> 5000]
DocLongA  == [source_id |-> "A", page_number |-> 2, content |-> TextLongA,
              relevance_score |-> 2500]
DocPool == {DocShortA, DocMidB, DocTinyC, DocLongC, DocLongA}

\* the raw document lists: matches of one query are distinct records
RawLists == Arrangements(DocPool, MaxDocs)

\* the source-metadata maps: none (the empty map), and one that flags B as
\* authoritative and knows A without the flag
NoMetadata == <<>>
SomeMetadata ==
    ("A" :> [display_name |-> "Book A", source_type |-> "book"]) @@
    ("B" :> [display_name |-> "Guide B", source_type |-> "guide",
             is_authoritative |-> TRUE])
Metadatas == {NoMetadata, SomeMetadata}

\* the engines: ContextEngineer(max_context_tokens, min_relevance_score,
\* enable_deduplication, enable_compression); 3000 and 0.05 are what
\* RAGPipeline builds its engine with, 0.3 is the default of the constructor
Engines ==
    [max_context_tokens : {116, 3000},
     min_relevance_score : {500, 3000},
     enable_deduplication : BOOLEAN,
     enable_compression : BOOLEAN]

\* the query and the query_type argument of a call: the type is detected
\* (as RAGPipeline.chat asks) or given
CallHeads ==
    {<<QueryHow, None>>, <<QueryCompare, None>>, <<QueryPrevia, None>>,
     <<QueryShould, None>>, <<QueryTell, "factual">>}

\* ------------------------------------------------------- the vector stores
\* Scores are integers in ten-thousandths, so 1 is 10000: one digit finer
\* than the three decimals the backends round relevance_score to.
One == 10000
\* round(x, 3) moves x to a multiple of 0.001, which is 10 ten-thousandths
RoundUnit == 10

\* round(value, 3): the nearest multiple of 0.001, a tie going to the even one
Round3(x) ==
    LET q == x \div RoundUnit
        r == x % RoundUnit
    IN  IF 2 * r < RoundUnit THEN q * RoundUnit
        ELSE IF 2 * r > RoundUnit THEN (q + 1) * RoundUnit
        ELSE IF q % 2 = 0 THEN q * RoundUnit ELSE (q + 1) * RoundUnit

\* Embeddings are unit vectors in the plane at multiples of 45 degrees, named
\* by the multiple; CosTable[k + 1] is the cosine of k * 45 degrees.
CosTable == <<10000, 7071, 0, -7071, -10000, -7071, 0, 7071>>
\* the cosine similarity both backends are configured with ("hnsw:space":
\* "cosine" in Chroma, the <=> operator of pgvector)
CosineSimilarity(a, b) == CosTable[((a - b) % 8) + 1]

\* f"{source_id}_{i}": the decimal form of i holds no underscore, so the
\* string determines the pair and the pair stands for the string
ChunkId(source_id, i) == <<source_id, i>>

\* the ChunkRecords VectorStoreService.store_document_chunks builds from the
\* chunk texts and their embeddings (zip stops at the shorter list)
ChunkRecords(source_id, chunks, embeddings) ==
    [k \in 1..Min(Len(chunks), Len(embeddings)) |->
        [chunk_id |-> ChunkId(source_id, k - 1),
         chunk_index |-> k - 1,
         content |-> chunks[k],
         embedding |-> embeddings[k],
         token_count |-> Len(Split(chunks[k]))]]

\* ---- ChromaVectorStore: the collection is a set of entries with unique ids
\* a variant of ChromaEntry that stores no document text
ChromaEntryNoDocument(source_id, chunk) ==
    [id |-> chunk.chunk_id,
     embedding |-> chunk.embedding,
     document |-> <<>>,
     metadata |-> [source_id |-> source_id, chunk_index |-> chunk.chunk_index]]

ChromaEntry(source_id, chunk) ==
    [id |-> chunk.chunk_id,
     embedding |-> chunk.embedding,
     document |-> chunk.content,
     metadata |-> [source_id |-> source_id, chunk_index |-> chunk.chunk_index]]

\* a delete that takes no notice of the source
ChromaDeleteAll(collection, source_id) == {}

\* collection.delete(where={"source_id": source_id})
ChromaDelete(collection, source_id) ==
    {e \in collection : e.metadata.source_id # source_id}

\* collection.add: an entry whose id is already in the collection is ignored
ChromaAdd(collection, entries) ==
    collection \cup {e \in entries : \A old \in collection : old.id # e.id}

\* ChromaVectorStore.store_chunks: the collection it leaves
ChromaStoreChunks(collection, source_id, chunks) ==
    IF chunks = <<>> THEN collection
    ELSE ChromaAdd(ChromaDelete(collection, source_id),
                   {ChromaEntry(source_id, chunks[k]) : k \in DOMAIN chunks})

\* ---- SupabaseVectorStore: public.document_chunks is a bag of rows (the
\* uuid key and the empty document_id of a row are never read)
SupabaseRow(source_id, chunk) ==
    [source_id |-> source_id,
     chunk_index |-> chunk.chunk_index,
     content |-> chunk.content,
     embedding |-> chunk.embedding,
     token_count |-> chunk.token_count]

\* the rows of a bag that satisfy Keep, with their copies
BagWhere(bag, kept) == [row \in kept |-> bag[row]]

\* a store_chunks whose DELETE has no WHERE clause
SupabaseReplaceAll(table, source_id, chunks) ==
    IF chunks = <<>> THEN EmptyBag
    ELSE SetToBag({SupabaseRow(source_id, chunks[k]) : k \in DOMAIN chunks})

\* SupabaseVectorStore.store_chunks: the table it commits
SupabaseStoreChunks(table, source_id, chunks) ==
    LET deleted == BagWhere(table, {row \in DOMAIN table : row.source_id # source_id})
    IN  IF chunks = <<>> THEN deleted
        ELSE deleted (+) SetToBag({SupabaseRow(source_id, chunks[k]) :
                                       k \in DOMAIN chunks})

\* ---- nearest-neighbour search
\* every listing of a set of tuples by rising first component, the distance;
\* which of two items at one distance comes first is the store's choice
RECURSIVE NearestOrders(_)
NearestOrders(scored) ==
    IF scored = {} THEN {<<>>}
    ELSE LET nearest == {p \in scored : \A other \in scored : p[1] <= other[1]}
         IN  UNION {{<<p>> \o rest : rest \in NearestOrders(scored \ {p})} :
                    p \in nearest}

\* a variant of ChromaWhere that drops the source filter
WhereIgnored(collection, source_ids) == collection

\* the where clause of ChromaVectorStore.query: sources listed in source_ids,
\* or everything when source_ids is None or empty (written <<>>)
ChromaWhere(collection, source_ids) ==
    IF source_ids # <<>>
    THEN {e \in collection : e.metadata.source_id \in Range(source_ids)}
    ELSE collection

\* the loop of ChromaVectorStore.query with its relevance test left out
ChromaMatchesUnfiltered(results, limit, min_relevance) ==
    LET matches == Tuple([k \in DOMAIN results |->
                       [source_id |-> results[k][2].metadata.source_id,
                        page_number |-> results[k][2].metadata.chunk_index,
                        content |-> results[k][2].document,
                        relevance_score |-> Round3(One - results[k][1])]])
    IN  Take(SortDesc(matches, Tuple([k \in DOMAIN matches |-> matches[k].relevance_score])),
             limit)

\* the loop, sort and slice of ChromaVectorStore.query over the results
\* collection.query returned, a list of <<distance, entry>>
ChromaMatches(results, limit, min_relevance) ==
    LET kept == SelectSeq(results, LAMBDA r : ~(One - r[1] < min_relevance))
        matches == Tuple([k \in DOMAIN kept |->
                       [source_id |-> kept[k][2].metadata.source_id,
                        page_number |-> kept[k][2].metadata.chunk_index,
                        content |-> kept[k][2].document,
                        relevance_score |-> Round3(One - kept[k][1])]])
    IN  Take(SortDesc(matches, Tuple([k \in DOMAIN matches |-> matches[k].relevance_score])),
             limit)

\* ChromaVectorStore.query: the lists it can return
ChromaQuery(collection, query_embedding, limit, source_ids, min_relevance) ==
    LET n_results == Max(limit * 2, limit)
        scored == {<<One - CosineSimilarity(e.embedding, query_embedding), e>> :
                      e \in ChromaWhere(collection, source_ids)}
    IN  {ChromaMatches(Take(order, n_results), limit, min_relevance) :
            order \in NearestOrders(scored)}

\* the loop and slice of SupabaseVectorStore.query over the fetched rows, a
\* list of <<1 - similarity, row>>
SupabaseMatches(rows, limit, min_relevance) ==
    LET kept == SelectSeq(rows, LAMBDA r : ~(One - r[1] < min_relevance))
        matches == Tuple([k \in DOMAIN kept |->
                       [source_id |-> kept[k][2].source_id,
                        page_number |-> kept[k][2].chunk_index,
                        content |-> kept[k][2].content,
                        relevance_score |-> Round3(One - kept[k][1])]])
    IN  Take(matches, limit)

\* SupabaseVectorStore.query: the lists it can return
SupabaseQuery(table, query_embedding, limit, source_ids, min_relevance) ==
    LET selected == IF source_ids # <<>>
                    THEN BagWhere(table, {row \in DOMAIN table :
                                             row.source_id \in Range(source_ids)})
                    ELSE table
        Distance(row) == One - CosineSimilarity(row.embedding, query_embedding)
        scored == UNION {{<<Distance(row), row, copy>> : copy \in 1..selected[row]} :
                            row \in DOMAIN selected}
    IN  {SupabaseMatches(Take(order, limit), limit, min_relevance) :
            order \in NearestOrders(scored)}

\* ---- the inputs of the store operations
Sources == {"A", "B"}
ChunkPayloads ==
    {[content |-> TextShort, embedding |-> 0],
     [content |-> SentLabor, embedding |-> 1],
     [content |-> TextTiny, embedding |-> 4]}
\* the chunks of one ingestion with their embeddings
ChunkLists == Arrangements(ChunkPayloads, MaxChunks)
\* the chunks and embeddings arguments of store_document_chunks: the texts of
\* an ingestion with their embeddings, or one text with its embedding missing
StoreInputs ==
    {[chunks |-> Tuple([k \in DOMAIN payload |-> payload[k].content]),
      embeddings |-> Tuple([k \in DOMAIN payload |-> payload[k].embedding])] :
        payload \in ChunkLists}
    \cup {[chunks |-> <<payload.content>>, embeddings |-> <<>>] :
             payload \in ChunkPayloads}
QueryEmbeddings == {1}
Limits == 1..MaxLimit
SourceFilters == {<<>>, <<"A">>, <<"B", "C">>}
\* no threshold, and the cosine of 45 degrees
MinRelevances == {0, 7071}
Queries ==
    [query_embedding : QueryEmbeddings, limit : Limits,
     source_ids : SourceFilters, min_relevance : MinRelevances]

\* ------------------------------------------------------------------ state
VARIABLES
    engine,          \* the ContextEngineer: its four constructor arguments
    ce_pc,           \* "idle" before engineer_context was called, else "returned"
    ce_call,         \* the arguments of the last engineer_context call
    ce_result,       \* what that call returned
    raw_documents,   \* the caller's records after the call
    dd_pc,           \* "start", "once", "twice": passes of deduplication done
    dd_input,        \* the list _deduplicate_documents is applied to
    dd_once,         \* _deduplicate_documents(dd_input)
    dd_twice,        \* _deduplicate_documents(dd_once)
    dq_pc,           \* "start" or "done"
    dq_query,        \* the query _detect_query_type is applied to
    dq_type,         \* what it returned
    backend,         \* "chroma" or "supabase": the VectorStoreBackend in use
    collection,      \* the entries of the Chroma collection
    document_chunks, \* the rows of public.document_chunks
    vs_last          \* the last VectorStoreService call and its outcome

ce_vars == <<engine, ce_pc, ce_call, ce_result, raw_documents>>
dd_vars == <<dd_pc, dd_input, dd_once, dd_twice>>
dq_vars == <<dq_pc, dq_query, dq_type>>
vs_vars == <<backend, collection, document_chunks, vs_last>>

VARIABLES
    ch_pc,           \* "idle" before RAGPipeline.chat was called, else "returned"
    ch_call,         \* the arguments of the chat call and what its collaborators do
    ch_result        \* how far the call got and what it handed to generation

ch_vars == <<ch_pc, ch_call, ch_result>>

VARIABLES
    bt_pc,           \* "idle", "running" while the pool works, else "returned"
    bt_call,         \* the batch call: which method, and its items
    bt_workers,      \* per item: where its worker stands and what it holds
    bt_result        \* what the batch call returned or raised

bt_vars == <<bt_pc, bt_call, bt_workers, bt_result>>

VARIABLES
    sh_docs,         \* the document records two engineer_context calls share
    sh_calls         \* per call: its arguments, where it stands, its result

sh_vars == <<sh_docs, sh_calls>>

VARIABLES
    bk_pc,           \* "start", then "constructed" or "failed", then "used"
    bk_env,          \* the libraries installed and the configuration given
    bk_backend,      \* what the construction of the backend gave
    bk_last          \* the operation run on the backend, and how it ended

bk_vars == <<bk_pc, bk_env, bk_backend, bk_last>>

VARIABLES
    fn_pc,           \* "start" before the function was applied, else "done"
    fn_arg,          \* the arguments the function is applied to
    fn_out           \* what the function returned

fn_vars == <<fn_pc, fn_arg, fn_out>>

VARIABLES
    doc_processor,   \* the chunk_size and chunk_overlap of the shared DocumentProcessor
    pt_calls,        \* per item of the batch: the overrides _process_text is given
    pt_workers       \* per item: where its _process_text stands, and its locals

pt_vars == <<doc_processor, pt_calls, pt_workers>>
more_vars == <<fn_vars, pt_vars>>
ext_vars == <<ch_vars, bt_vars, sh_vars, bk_vars, more_vars>>
vars == <<ce_vars, dd_vars, dq_vars, vs_vars, ext_vars>>

DefaultEngine ==
    [max_context_tokens |-> 3000, min_relevance_score |-> 3000,
     enable_deduplication |-> TRUE, enable_compression |-> TRUE]
NoCall ==
    [query |-> <<>>, raw_documents |-> <<>>, query_type |-> None,
     source_metadata |-> NoMetadata]
NoResult ==
    [documents |-> <<>>, query_type |-> None,
     context_stats |-> [original_count |-> 0, filtered_count |-> 0,
                        final_count |-> 0, estimated_tokens |-> 0]]

CeIdle ==
    /\ engine = DefaultEngine
    /\ ce_pc = "idle"
    /\ ce_call = NoCall
    /\ ce_result = NoResult
    /\ raw_documents = <<>>
DdIdle == dd_pc = "start" /\ dd_input = <<>> /\ dd_once = <<>> /\ dd_twice = <<>>
DqIdle == dq_pc = "start" /\ dq_query = <<>> /\ dq_type = None

NoQuery ==
    [query_embedding |-> 0, limit |-> 0, source_ids |-> <<>>, min_relevance |-> 0]
NoServiceCall ==
    [op |-> None, source_id |-> None, chunks |-> <<>>, embeddings |-> <<>>,
     query |-> NoQuery, outcome |-> None, matches |-> <<>>]
VsIdle ==
    /\ backend = "chroma"
    /\ collection = {}
    /\ document_chunks = EmptyBag
    /\ vs_last = NoServiceCall

NoChat ==
    [message |-> <<>>, source_ids |-> <<>>, relevance_threshold |-> <<>>,
     history |-> "off", embed_fails |-> FALSE, query_fails |-> FALSE]
NoSearch == [raised |-> None, value |-> <<>>]
NoReply ==
    [raised |-> None, searched |-> FALSE, search |-> NoSearch,
     relevant_docs |-> <<>>, generated |-> FALSE]
ChIdle == ch_pc = "idle" /\ ch_call = NoChat /\ ch_result = NoReply
NoBatch == [op |-> None, items |-> <<>>]
NoBatchResult == [raised |-> None, results |-> <<>>]
BtIdle ==
    /\ bt_pc = "idle"
    /\ bt_call = NoBatch
    /\ bt_workers = <<>>
    /\ bt_result = NoBatchResult
ShIdle == sh_docs = <<>> /\ sh_calls = <<>>
NoEnv ==
    [route |-> None, chromadb |-> TRUE, psycopg2 |-> TRUE,
     test_with_chromadb |-> <<>>, settings_test_with_chromadb |-> FALSE,
     supabase_dsn |-> <<>>, settings_supabase_db_url |-> <<>>]
NoBackend == [raised |-> None, kind |-> None, dsn |-> <<>>]
NoOperation == [op |-> None, raised |-> None]
BkIdle ==
    /\ bk_pc = "start"
    /\ bk_env = NoEnv
    /\ bk_backend = NoBackend
    /\ bk_last = NoOperation
NoArguments == [documents |-> <<>>, query_type |-> None, max_context_tokens |-> 0]
NoOutput == [diversified |-> <<>>, assembled |-> <<>>, fitted |-> <<>>]
FnIdle == fn_pc = "start" /\ fn_arg = NoArguments /\ fn_out = NoOutput
ProcessorBefore == [chunk_size |-> 500, chunk_overlap |-> 100]
PtIdle == doc_processor = ProcessorBefore /\ pt_calls = <<>> /\ pt_workers = <<>>
MoreIdle == FnIdle /\ PtIdle
ExtIdle == ChIdle /\ BtIdle /\ ShIdle /\ BkIdle /\ MoreIdle

\* ------------------------------------------- engineer_context as a machine
Calls ==
    {[query |-> h[1], raw_documents |-> raws, query_type |-> h[2],
      source_metadata |-> m] :
        <<h, raws, m>> \in CallHeads \X RawLists \X Metadatas}

InitEngine ==
    /\ engine \in Engines
    /\ ce_pc = "idle"
    /\ ce_call \in Calls
    /\ ce_result = NoResult
    /\ raw_documents = <<>>
    /\ DdIdle /\ DqIdle /\ VsIdle /\ ExtIdle

EngineerContext ==
    /\ ce_pc = "idle"
    /\ LET frame == CallEngineerContext(engine, ce_call.query, ce_call.raw_documents,
                                        ce_call.query_type, ce_call.source_metadata)
       IN  /\ ce_result' = frame.returned
           /\ raw_documents' = frame.raw_documents
    /\ ce_pc' = "returned"
    /\ UNCHANGED <<engine, ce_call, dd_vars, dq_vars, vs_vars, ext_vars>>

NextEngine == EngineerContext
SpecEngine == InitEngine /\ [][NextEngine]_vars

\* -------------------------------------------------- deduplication, applied
DedupInputs == SeqsUpTo({DocShortA, DocShortB, DocLongA, DocLongC}, MaxDocs)

InitDedup ==
    /\ dd_pc = "start"
    /\ dd_input \in DedupInputs
    /\ dd_once = <<>>
    /\ dd_twice = <<>>
    /\ CeIdle /\ DqIdle /\ VsIdle /\ ExtIdle

DedupOnce ==
    /\ dd_pc = "start"
    /\ dd_once' = _deduplicate_documents(dd_input)
    /\ dd_pc' = "once"
    /\ UNCHANGED <<dd_input, dd_twice, ce_vars, dq_vars, vs_vars, ext_vars>>

DedupTwice ==
    /\ dd_pc = "once"
    /\ dd_twice' = _deduplicate_documents(dd_once)
    /\ dd_pc' = "twice"
    /\ UNCHANGED <<dd_input, dd_once, ce_vars, dq_vars, vs_vars, ext_vars>>

NextDedup == DedupOnce \/ DedupTwice
SpecDedup == InitDedup /\ [][NextDedup]_vars

\* ------------------------------------------- query-type detection, applied
InitDetect ==
    /\ dq_pc = "start"
    /\ dq_query \in LiteralQueries \cup GeneratedQueries
    /\ dq_type = None
    /\ CeIdle /\ DdIdle /\ VsIdle /\ ExtIdle

DetectQueryType ==
    /\ dq_pc = "start"
    /\ dq_type' = _detect_query_type(dq_query)
    /\ dq_pc' = "done"
    /\ UNCHANGED <<dq_query, ce_vars, dd_vars, vs_vars, ext_vars>>

NextDetect == DetectQueryType
SpecDetect == InitDetect /\ [][NextDetect]_vars

\* ------------------------------------------- the vector store as a machine
Init ==
    /\ backend \in {"chroma", "supabase"}
    /\ collection = {}
    /\ document_chunks = EmptyBag
    /\ vs_last = NoServiceCall
    /\ CeIdle /\ DdIdle /\ DqIdle /\ ExtIdle

\* self.vector_store.store_chunks(source_id, chunks) on the backend in use
StoreChunks(source_id, chunks) ==
    IF backend = "chroma"
    THEN /\ collection' = ChromaStoreChunks(collection, source_id, chunks)
         /\ UNCHANGED document_chunks
    ELSE /\ document_chunks' = SupabaseStoreChunks(document_chunks, source_id, chunks)
         /\ UNCHANGED collection

\* VectorStoreService.store_document_chunks(source_id, chunks, embeddings)
StoreDocumentChunks ==
    /\ \E source_id \in Sources, input \in StoreInputs :
        LET call == [op |-> "store", source_id |-> source_id,
                     chunks |-> input.chunks, embeddings |-> input.embeddings,
                     query |-> NoQuery, outcome |-> "ok", matches |-> <<>>]
        IN  IF Len(input.chunks) # Len(input.embeddings)
            THEN /\ vs_last' = [call EXCEPT !.outcome = "StorageError"]
                 /\ UNCHANGED <<collection, document_chunks>>
            ELSE /\ StoreChunks(source_id,
                                ChunkRecords(source_id, input.chunks, input.embeddings))
                 /\ vs_last' = call
    /\ UNCHANGED <<backend, ce_vars, dd_vars, dq_vars, ext_vars>>

\* VectorStoreService.delete_source(source_id)
DeleteSource ==
    /\ \E source_id \in Sources :
        /\ StoreChunks(source_id, <<>>)
        /\ vs_last' = [op |-> "delete", source_id |-> source_id, chunks |-> <<>>,
                       embeddings |-> <<>>, query |-> NoQuery,
                       outcome |-> "ok", matches |-> <<>>]
    /\ UNCHANGED <<backend, ce_vars, dd_vars, dq_vars, ext_vars>>

\* self.vector_store.query(...) on the backend in use: the lists it can return
Query(q) ==
    IF backend = "chroma"
    THEN ChromaQuery(collection, q.query_embedding, q.limit, q.source_ids,
                     q.min_relevance)
    ELSE SupabaseQuery(document_chunks, q.query_embedding, q.limit, q.source_ids,
                       q.min_relevance)

\* VectorStoreService.search(query_embedding, limit, source_ids, min_relevance)
Search ==
    /\ \E q \in Queries : \E results \in Query(q) :
        vs_last' = [op |-> "search", source_id |-> None, chunks |-> <<>>,
                    embeddings |-> <<>>, query |-> q,
                    outcome |-> "ok", matches |-> results]
    /\ UNCHANGED <<backend, collection, document_chunks, ce_vars, dd_vars, dq_vars, ext_vars>>

Next == StoreDocumentChunks \/ DeleteSource \/ Search
Spec == Init /\ [][Next]_vars

\* ------------------------------------------------------------------ claims
\* the estimated token cost of a document: the length of its content
\* divided by 4, rounded down
TokenCost(doc) == Len(doc.content) \div 4

RECURSIVE TokenSum(_)
TokenSum(docs) == IF docs = <<>> THEN 0 ELSE TokenCost(Head(docs)) + TokenSum(Tail(docs))

IsTruncated(doc) == Get(doc, "truncated", FALSE)

\* C1: the estimated tokens of the returned documents sum to at most
\* max_context_tokens, except that one truncated document may come last when
\* at least 100 tokens of budget remained before it.
C1_TokenBudget ==
    ce_pc = "returned" =>
        LET docs == ce_result.documents
            n == Len(docs)
        IN  \/ TokenSum(docs) <= engine.max_context_tokens
            \/ /\ n > 0
               /\ IsTruncated(docs[n])
               /\ \A i \in 1..(n - 1) : ~IsTruncated(docs[i])
               /\ engine.max_context_tokens - TokenSum(SubSeq(docs, 1, n - 1)) >= 100

\* a call that returned a whole document followed by a truncated copy
C1_Witness ==
    /\ ce_pc = "returned"
    /\ Len(ce_result.documents) >= 2
    /\ IsTruncated(ce_result.documents[Len(ce_result.documents)])
    /\ TokenSum(ce_result.documents) = engine.max_context_tokens

\* C2: final_count <= filtered_count <= original_count, whatever the toggles
\* and the query type.
C2_CountsOrdered ==
    ce_pc = "returned" =>
        /\ ce_result.context_stats.final_count <= ce_result.context_stats.filtered_count
        /\ ce_result.context_stats.filtered_count <= ce_result.context_stats.original_count

\* a call in which both inequalities are strict, with deduplication enabled
C2_Witness ==
    /\ ce_pc = "returned"
    /\ engine.enable_deduplication
    /\ ce_result.context_stats.final_count < ce_result.context_stats.filtered_count
    /\ ce_result.context_stats.filtered_count < ce_result.context_stats.original_count

\* relevance_score plus 0.1 when source_metadata flags the source authoritative
CompositeScore(doc, source_metadata) ==
    doc.relevance_score +
    (IF /\ doc.source_id \in DOMAIN source_metadata
        /\ "is_authoritative" \in DOMAIN source_metadata[doc.source_id]
        /\ source_metadata[doc.source_id].is_authoritative
     THEN 1000 ELSE 0)

\* C3: along the returned list the composite rank score never increases and
\* rank_position strictly increases, for every query type (analytical
\* included) and with a truncated last document.
C3_RankOrder ==
    ce_pc = "returned" =>
        \A i, j \in 1..Len(ce_result.documents) :
            i < j =>
                /\ CompositeScore(ce_result.documents[i], ce_call.source_metadata)
                     >= CompositeScore(ce_result.documents[j], ce_call.source_metadata)
                /\ ce_result.documents[i].rank_position
                     < ce_result.documents[j].rank_position

\* an analytical call in which diversification left a document out and the
\* authority boost put a less relevant document first
C3_Witness ==
    /\ ce_pc = "returned"
    /\ ce_result.query_type = "analytical"
    /\ engine.max_context_tokens = 3000
    /\ ce_result.context_stats.final_count < ce_result.context_stats.filtered_count
    /\ \E i, j \in 1..Len(ce_result.documents) :
           /\ i < j
           /\ ce_result.documents[i].relevance_score
                < ce_result.documents[j].relevance_score

\* C4: every returned document has relevance_score >= min_relevance_score.
C4_RelevanceFloor ==
    ce_pc = "returned" =>
        \A i \in 1..Len(ce_result.documents) :
            ce_result.documents[i].relevance_score >= engine.min_relevance_score

\* a call given a document below the threshold that returned other documents
C4_Witness ==
    /\ ce_pc = "returned"
    /\ ce_result.documents # <<>>
    /\ \E i \in 1..Len(ce_call.raw_documents) :
           ce_call.raw_documents[i].relevance_score < engine.min_relevance_score

\* C5: deduplication applied to its own output returns that output.
C5_DedupIdempotent == dd_pc = "twice" => dd_twice = dd_once

\* a second pass over a list the first pass shortened to two or more documents
C5_Witness ==
    /\ dd_pc = "twice"
    /\ Len(dd_once) < Len(dd_input)
    /\ Len(dd_once) >= 2

\* the rules of query-type detection, in order; the last one always applies
RuleApplies(k, query) ==
    CASE k = 1 -> AnyIn(FactualWords, Lower(query))
      [] k = 2 -> AnyIn(ExplanatoryWords, Lower(query))
      [] k = 3 -> AnyIn(AnalyticalWords, Lower(query))
      [] k = 4 -> AnyIn(AdvisoryWords, Lower(query))
      [] k = 5 -> ~Contains(<<"?">>, query) /\ Len(Split(query)) < 5
      [] OTHER -> TRUE
RuleType ==
    <<"factual", "explanatory", "analytical", "advisory", "search", "conversational">>
FirstRule(query) ==
    CHOOSE k \in 1..6 : RuleApplies(k, query) /\ \A j \in 1..(k - 1) : ~RuleApplies(j, query)

\* C6: the detected type is the type of the first rule that applies, and the
\* six queries of the specification classify as it says.
C6_FirstRuleWins ==
    dq_pc = "done" =>
        /\ dq_type = RuleType[FirstRule(dq_query)]
        /\ dq_query = QueryWhat => dq_type = "factual"
        /\ dq_query = QueryHow => dq_type = "explanatory"
        /\ dq_query = QueryCompare => dq_type = "analytical"
        /\ dq_query = QueryShould => dq_type = "advisory"
        /\ dq_query = QueryPrevia => dq_type = "search"
        /\ dq_query = QueryTell => dq_type = "conversational"

\* a classified query to which the second, third and fifth rule apply
C6_Witness ==
    /\ dq_pc = "done"
    /\ ~RuleApplies(1, dq_query)
    /\ RuleApplies(2, dq_query)
    /\ RuleApplies(3, dq_query)
    /\ RuleApplies(5, dq_query)
    /\ dq_type = "explanatory"

\* ---- the vector stores
\* what the backend in use holds for a source: index, text and embedding of
\* each chunk, and how many chunks there are
StoredChunks(source_id) ==
    IF backend = "chroma"
    THEN {[chunk_index |-> e.metadata.chunk_index, content |-> e.document,
           embedding |-> e.embedding] :
             e \in {x \in collection : x.metadata.source_id = source_id}}
    ELSE {[chunk_index |-> row.chunk_index, content |-> row.content,
           embedding |-> row.embedding] :
             row \in {x \in DOMAIN document_chunks : x.source_id = source_id}}
StoredCount(source_id) ==
    IF backend = "chroma"
    THEN Cardinality({x \in collection : x.metadata.source_id = source_id})
    ELSE BagCardinality(BagWhere(document_chunks,
             {row \in DOMAIN document_chunks : row.source_id = source_id}))

\* the chunks a store call was given, in the same form
GivenChunks(call) ==
    {[chunk_index |-> k - 1, content |-> call.chunks[k],
      embedding |-> call.embeddings[k]] : k \in DOMAIN call.chunks}

\* C7: after a store of chunks for a source returns successfully, whatever
\* was stored before, the backend holds exactly those chunks for the source.
C7_FullReplace ==
    (vs_last.op = "store" /\ vs_last.outcome = "ok") =>
        /\ StoredChunks(vs_last.source_id) = GivenChunks(vs_last)
        /\ StoredCount(vs_last.source_id) = Len(vs_last.chunks)

\* C8: a step that stores the empty list for a source (delete_source does)
\* leaves no chunk of that source and changes no other source; a search
\* restricted to that source right after delete_source returns no match.
C8_DeleteOnly ==
    [][\A source_id \in Sources :
        /\ (/\ vs_last'.op \in {"store", "delete"}
            /\ vs_last'.outcome = "ok"
            /\ vs_last'.chunks = <<>>
            /\ vs_last'.source_id = source_id) =>
               /\ StoredCount(source_id)' = 0
               /\ \A other \in Sources \ {source_id} :
                     StoredChunks(other)' = StoredChunks(other)
        /\ (/\ vs_last.op = "delete"
            /\ vs_last.outcome = "ok"
            /\ vs_last.source_id = source_id
            /\ vs_last'.op = "search"
            /\ vs_last'.query.source_ids = <<source_id>>) =>
               vs_last'.matches = <<>>]_vars

\* C9: a search with a non-empty source_ids list returns only matches whose
\* source_id is in the list, on both backends.
C9_SourceFilter ==
    (vs_last.op = "search" /\ vs_last.query.source_ids # <<>>) =>
        \A k \in DOMAIN vs_last.matches :
            vs_last.matches[k].source_id \in Range(vs_last.query.source_ids)

\* a search restricted to source A returned a match although a chunk of
\* source B is stored that is at least as close to the query and reaches
\* the threshold
C9_Witness ==
    /\ vs_last.op = "search"
    /\ vs_last.query.source_ids = <<"A">>
    /\ vs_last.matches # <<>>
    /\ \E chunk \in StoredChunks("B") :
          LET similarity == CosineSimilarity(chunk.embedding,
                                             vs_last.query.query_embedding)
          IN  /\ similarity >= vs_last.query.min_relevance
              /\ Round3(similarity) >= vs_last.matches[1].relevance_score

\* C10: a search returns at most limit matches, each with relevance_score at
\* least min_relevance, sorted by falling relevance_score, on both backends.
C10_QueryContract ==
    vs_last.op = "search" =>
        /\ Len(vs_last.matches) <= vs_last.query.limit
        /\ \A k \in DOMAIN vs_last.matches :
              vs_last.matches[k].relevance_score >= vs_last.query.min_relevance
        /\ \A k \in 1..(Len(vs_last.matches) - 1) :
              vs_last.matches[k].relevance_score
                  >= vs_last.matches[k + 1].relevance_score

\* how many elements of a list of matches, or of chunk texts, are the text
ContentCount(matches, content) ==
    Cardinality({k \in DOMAIN matches : matches[k].content = content})
TextCount(chunks, kept, content) ==
    Cardinality({k \in kept : chunks[k] = content})

\* the step from a successful store of one chunk or more for source_id to a
\* search restricted to that source, with min_relevance 0 and a limit of at
\* least the number of chunks stored
IsRoundTrip(source_id) ==
    /\ vs_last.op = "store"
    /\ vs_last.outcome = "ok"
    /\ vs_last.source_id = source_id
    /\ Len(vs_last.chunks) >= 1
    /\ vs_last'.op = "search"
    /\ vs_last'.query.min_relevance = 0
    /\ vs_last'.query.source_ids = <<source_id>>
    /\ vs_last'.query.limit >= Len(vs_last.chunks)

Nothing == <<>>
Some(x) == <<x>>

\* what the embeddings provider answers for a text: a direction
embed_query(text) == Len(text) % 2

\* DocumentProcessor.generate_single_embedding: the outcome of one call,
\* when the provider fails and when it does not
generate_single_embedding(text, fails) ==
    IF fails
    THEN [raised |-> "EmbeddingGenerationError", value |-> 0]
    ELSE [raised |-> None, value |-> embed_query(text)]

\* HistoryManager.prepare_history_context, as far as chat uses it here: the
\* embedding of the message, computed with no handler around the provider
prepare_history_context(message, fails) ==
    IF fails
    THEN [raised |-> "Exception", value |-> Nothing]
    ELSE [raised |-> None, value |-> Some(embed_query(message))]

\* VectorStoreService.search: the outcomes of one call, when the query of
\* the backend raises and when it does not
ServiceSearch(q, fails) ==
    IF fails
    THEN {[raised |-> "SearchError", value |-> <<>>]}
    ELSE {[raised |-> None, value |-> results] : results \in Query(q)}

\* RAGPipeline.search_documents without its except clause
SearchDocumentsRaising(query, limit, source_ids, min_relevance_score, query_embedding, env) ==
    LET embedded == IF query_embedding = Nothing
                    THEN generate_single_embedding(query, env.embed_fails)
                    ELSE [raised |-> None, value |-> query_embedding[1]]
    IN  IF embedded.raised # None
        THEN {[raised |-> embedded.raised, value |-> <<>>]}
        ELSE ServiceSearch([query_embedding |-> embedded.value, limit |-> limit,
                            source_ids |-> source_ids,
                            min_relevance |-> min_relevance_score],
                           env.query_fails)

\* RAGPipeline.search_documents: the outcomes of one call; env tells which
\* of its collaborators fail
search_documents(query, limit, source_ids, min_relevance_score, query_embedding, env) ==
    LET embedded == IF query_embedding = Nothing
                    THEN generate_single_embedding(query, env.embed_fails)
                    ELSE [raised |-> None, value |-> query_embedding[1]]
    IN  IF embedded.raised # None
        THEN {[raised |-> None, value |-> <<>>]}
        ELSE {IF found.raised # None THEN [raised |-> None, value |-> <<>>] ELSE found :
                 found \in ServiceSearch([query_embedding |-> embedded.value,
                                          limit |-> limit,
                                          source_ids |-> source_ids,
                                          min_relevance |-> min_relevance_score],
                                         env.query_fails)}

min_relevance_threshold == 500
ChatSearchLimit == 10

\* the ContextEngineer RAGPipeline builds, and the metadata it loaded
PipelineEngine ==
    [max_context_tokens |-> 3000, min_relevance_score |-> min_relevance_threshold,
     enable_deduplication |-> TRUE, enable_compression |-> TRUE]
source_metadata == SomeMetadata

\* chat from the return of search_documents on: context engineering, then
\* generation; an exception is raised again by the handler of chat
ChatAfterSearch(call, search) ==
    IF search.raised # None
    THEN [NoReply EXCEPT !.raised = search.raised, !.searched = TRUE, !.search = search]
    ELSE [raised |-> None, searched |-> TRUE, search |-> search,
          relevant_docs |-> engineer_context(PipelineEngine, call.message, search.value,
                                             None, source_metadata).documents,
          generated |-> TRUE]

\* RAGPipeline.chat: the replies one call can end with. source_ids is the
\* empty list for None too, which chat treats alike
chat(call) ==
    LET history == IF call.history = "off"
                   THEN [raised |-> None, value |-> Nothing]
                   ELSE prepare_history_context(call.message, call.history = "fails")
        relevance_threshold == IF call.relevance_threshold = Nothing
                               THEN min_relevance_threshold
                               ELSE call.relevance_threshold[1]
    IN  IF history.raised # None
        THEN {[NoReply EXCEPT !.raised = history.raised]}
        ELSE IF Len(call.source_ids) = 0
        THEN {[NoReply EXCEPT !.generated = TRUE]}
        ELSE {ChatAfterSearch(call, search) :
                 search \in search_documents(call.message, ChatSearchLimit,
                                             call.source_ids, relevance_threshold,
                                             history.value, call)}

\* the calls: with and without a history manager and user, whose embedding
\* of the message may fail; with the provider or the backend failing or not
ChatCalls ==
    [message : {QueryHow, QueryTell},
     source_ids : {<<>>, <<"A">>, <<"A", "B">>},
     relevance_threshold : {Nothing, Some(7071)},
     history : {"off", "ok", "fails"},
     embed_fails : BOOLEAN,
     query_fails : BOOLEAN]

\* what the stores hold when chat is called: one or two chunks of source A
\* and none or one of source B
StoredInputs == {input \in StoreInputs : Len(input.chunks) = Len(input.embeddings)}
ChunksOfB == {<<>>, ChunkRecords("B", <<TextMid>>, <<1>>)}

InitChat ==
    /\ backend \in {"chroma", "supabase"}
    /\ \E a \in StoredInputs, b \in ChunksOfB :
        LET chunks == ChunkRecords("A", a.chunks, a.embeddings)
        IN  /\ collection =
                   IF backend = "chroma"
                   THEN ChromaStoreChunks(ChromaStoreChunks({}, "A", chunks), "B", b)
                   ELSE {}
            /\ document_chunks =
                   IF backend = "supabase"
                   THEN SupabaseStoreChunks(SupabaseStoreChunks(EmptyBag, "A", chunks), "B", b)
                   ELSE EmptyBag
    /\ vs_last = NoServiceCall
    /\ ch_pc = "idle"
    /\ ch_call \in ChatCalls
    /\ ch_result = NoReply
    /\ CeIdle /\ DdIdle /\ DqIdle /\ BtIdle /\ ShIdle /\ BkIdle /\ MoreIdle

Chat ==
    /\ ch_pc = "idle"
    /\ \E reply \in chat(ch_call) : ch_result' = reply
    /\ ch_pc' = "returned"
    /\ UNCHANGED <<ch_call, ce_vars, dd_vars, dq_vars, vs_vars, bt_vars, sh_vars, bk_vars, more_vars>>

NextChat == Chat
SpecChat == InitChat /\ [][NextChat]_vars

\* the call reached search_documents, and there the provider was asked for
\* the embedding and failed, or the query of the backend raised
SearchFailed ==
    /\ ch_pc = "returned"
    /\ ch_result.searched
    /\ \/ ch_call.history = "off" /\ ch_call.embed_fails
       \/ ch_call.query_fails

\* C12: when embedding generation or the backend query raises inside
\* search_documents, search_documents returns the empty list and raises
\* nothing, and chat goes on to generation with an empty context.
C12_SearchNonFatal ==
    SearchFailed =>
        /\ ch_result.search = [raised |-> None, value |-> <<>>]
        /\ ch_result.raised = None
        /\ ch_result.generated
        /\ ch_result.relevant_docs = <<>>

\* the backend raised on a query that would have matched a stored chunk of A,
\* and chat generated with no context
C12_Witness ==
    /\ SearchFailed
    /\ ch_call.query_fails
    /\ ~ch_call.embed_fails
    /\ ch_call.source_ids = <<"A">>
    /\ \/ \E e \in collection : e.embedding = embed_query(ch_call.message)
       \/ \E row \in BagToSet(document_chunks) : row.embedding = embed_query(ch_call.message)
    /\ ch_result.generated
    /\ ch_result.relevant_docs = <<>>

\* ------------------------------------------- ingestion by SourceController
\* RecursiveCharacterTextSplitter.split_text, a library: here one chunk for
\* each sentence that a full stop ends, stripped
split_text(text) ==
    LET pieces == Runs(text, {"."})
        stripped == Tuple([k \in DOMAIN pieces |-> Strip(pieces[k])])
    IN  SelectSeq(stripped, LAMBDA piece : piece # <<>>)

\* DocumentProcessor.chunk_text
chunk_text(text) ==
    IF text = <<>> \/ Strip(text) = <<>> \/ split_text(text) = <<>>
    THEN [raised |-> "ChunkingError", value |-> <<>>]
    ELSE [raised |-> None, value |-> split_text(text)]

\* _process_text up to the call of store_document_chunks, stopping at the
\* first chunk that gets no embedding
ProcessTextPartial(text, fail_at) ==
    LET chunked == chunk_text(text)
        chunks == IF fail_at \in DOMAIN chunked.value
                  THEN SubSeq(chunked.value, 1, fail_at - 1) ELSE chunked.value
    IN  IF chunked.raised # None
        THEN [raised |-> chunked.raised, chunks |-> <<>>, embeddings |-> <<>>]
        ELSE [raised |-> None, chunks |-> chunks,
              embeddings |-> Tuple([k \in DOMAIN chunks |-> embed_query(chunks[k])])]

\* _process_text up to the call of store_document_chunks: the chunks and
\* their embeddings; the embedding of chunk number fail_at fails (none does
\* when fail_at is 0)
ProcessTextPrepare(text, fail_at) ==
    LET chunked == chunk_text(text)
        chunks == chunked.value
        embedded == Tuple([k \in DOMAIN chunks |->
                       generate_single_embedding(chunks[k], k = fail_at)])
    IN  IF chunked.raised # None
        THEN [raised |-> chunked.raised, chunks |-> <<>>, embeddings |-> <<>>]
        ELSE IF \E k \in DOMAIN chunks : embedded[k].raised # None
        THEN [raised |-> "EmbeddingGenerationError", chunks |-> chunks,
              embeddings |-> <<>>]
        ELSE [raised |-> None, chunks |-> chunks,
              embeddings |-> Tuple([k \in DOMAIN chunks |-> embedded[k].value])]

\* the subclasses of DocumentProcessingError
DocumentProcessingErrors ==
    {"DocumentProcessingError", "PDFExtractionError", "ChunkingError"}

Returned(value) == [raised |-> None, value |-> value]
Raised(exception) == [raised |-> exception, value |-> FALSE]

\* the except clauses of process_source, for an exception raised in its try
process_source_except(exception) ==
    IF exception \in DocumentProcessingErrors \cup {"SourceNotFoundError"}
    THEN Raised(exception)
    ELSE Returned(FALSE)

\* how the worker of an item ends when exception is raised inside
\* _process_text: process_single catches everything, upload_file too, and
\* process_item lets what upload_text raises through
WorkerExcept(op, item, exception) ==
    IF op = "process_sources"
    THEN Returned(FALSE)
    ELSE IF item.kind = "filepath" THEN Returned(FALSE)
    ELSE Raised(exception)

\* the worker of an item up to the call of store_document_chunks: how it
\* ends there, or the chunks it goes on to store
WorkerPrepare(op, item) ==
    LET prepared == ProcessTextPrepare(item.text, item.fail_at)
        stop == [raised |-> None, chunks |-> <<>>, embeddings |-> <<>>]
    IN  IF op = "process_sources" /\ item.source_id \notin DOMAIN source_metadata
        THEN [stop EXCEPT !.raised = "SourceNotFoundError"]
        ELSE IF op = "process_sources" /\ ~item.readable
        THEN [stop EXCEPT !.raised = "OSError"]
        ELSE IF op = "process_sources" /\ item.text = <<>>
        THEN [stop EXCEPT !.raised = "return False"]
        ELSE IF op = "upload_batch" /\ item.kind = "none"
        THEN [stop EXCEPT !.raised = "return False"]
        ELSE IF op = "upload_batch" /\ item.kind = "filepath" /\ ~item.readable
        THEN [stop EXCEPT !.raised = "OSError"]
        ELSE prepared

\* how process_single or process_item ends for a worker that stopped before
\* the store
WorkerStopped(op, item, stopped) ==
    IF stopped = "return False" THEN Returned(FALSE)
    ELSE IF op = "process_sources"
    THEN LET outcome == IF stopped = "SourceNotFoundError"
                        THEN Raised(stopped) ELSE process_source_except(stopped)
         IN  IF outcome.raised # None THEN Returned(FALSE) ELSE outcome
    ELSE WorkerExcept(op, item, stopped)

\* the items of a batch: the source, what is given for it (the source_id
\* alone to process_sources; a text, a file path or neither to upload_batch),
\* the text given or held by the file, whether the file can be read, the
\* chunk whose embedding fails, and whether the backend fails on the store
Item(source_id, kind, text, readable, fail_at, store_fails) ==
    [source_id |-> source_id, kind |-> kind, text |-> text, readable |-> readable,
     fail_at |-> fail_at, store_fails |-> store_fails]

ProcessItems ==
    {Item("A", "source", TextShort, TRUE, 0, FALSE),
     Item("B", "source", TextTiny, TRUE, 0, FALSE),
     Item("A", "source", TextTiny, TRUE, 0, FALSE),
     Item("Z", "source", TextTiny, TRUE, 0, FALSE),
     Item("B", "source", <<" ">>, TRUE, 0, FALSE),
     Item("B", "source", <<>>, TRUE, 0, FALSE),
     Item("B", "source", TextTiny, FALSE, 0, FALSE),
     Item("B", "source", TextShort, TRUE, 2, FALSE),
     Item("B", "source", TextTiny, TRUE, 0, TRUE)}

UploadItems ==
    {Item("A", "text", TextShort, TRUE, 0, FALSE),
     Item("B", "text", TextTiny, TRUE, 0, FALSE),
     Item("A", "text", TextTiny, TRUE, 0, FALSE),
     Item("Z", "text", TextTiny, TRUE, 0, FALSE),
     Item("B", "text", <<" ">>, TRUE, 0, FALSE),
     Item("B", "text", TextShort, TRUE, 2, FALSE),
     Item("B", "text", TextTiny, TRUE, 0, TRUE),
     Item("B", "filepath", TextTiny, TRUE, 0, FALSE),
     Item("B", "filepath", TextTiny, FALSE, 0, FALSE),
     Item("B", "filepath", TextShort, TRUE, 1, FALSE),
     Item("B", "none", <<>>, TRUE, 0, FALSE)}

MaxItems == 2

BatchCalls ==
    {[op |-> "process_sources", items |-> items] :
        items \in SeqsUpTo(ProcessItems, MaxItems) \ {<<>>}}
    \cup {[op |-> "upload_batch", items |-> items] :
        items \in SeqsUpTo(UploadItems, MaxItems) \ {<<>>}}

\* what the store holds for a source before the batch: one chunk
OldChunks(source_id) == ChunkRecords(source_id, <<TextMid>>, <<1>>)

QueuedWorker ==
    [pc |-> "queued", chunks |-> <<>>, marked |-> EmptyBag, outcome |-> Returned(FALSE)]

InitBatch ==
    /\ backend \in {"chroma", "supabase"}
    /\ collection =
           IF backend = "chroma"
           THEN ChromaStoreChunks(ChromaStoreChunks({}, "A", OldChunks("A")),
                                  "B", OldChunks("B"))
           ELSE {}
    /\ document_chunks =
           IF backend = "supabase"
           THEN SupabaseStoreChunks(SupabaseStoreChunks(EmptyBag, "A", OldChunks("A")),
                                    "B", OldChunks("B"))
           ELSE EmptyBag
    /\ vs_last = NoServiceCall
    /\ bt_pc = "running"
    /\ bt_call \in BatchCalls
    /\ bt_workers = [i \in DOMAIN bt_call.items |-> QueuedWorker]
    /\ bt_result = NoBatchResult
    /\ CeIdle /\ DdIdle /\ DqIdle /\ ChIdle /\ ShIdle /\ BkIdle /\ MoreIdle

\* a pool thread takes item i and runs it up to the call of store_chunks
WorkerBegin(i) ==
    /\ bt_workers[i].pc = "queued"
    /\ LET item == bt_call.items[i]
           prepared == WorkerPrepare(bt_call.op, item)
       IN  bt_workers' =
               [bt_workers EXCEPT ![i] =
                   IF prepared.raised # None
                   THEN [@ EXCEPT !.pc = "done",
                                  !.outcome = WorkerStopped(bt_call.op, item,
                                                            prepared.raised)]
                   ELSE [@ EXCEPT !.pc = "delete",
                                  !.chunks = ChunkRecords(item.source_id,
                                                          prepared.chunks,
                                                          prepared.embeddings)]]
    /\ UNCHANGED <<bt_pc, bt_call, bt_result, ce_vars, dd_vars, dq_vars, vs_vars, ch_vars, sh_vars, bk_vars, more_vars>>

\* store_chunks of worker i, first half: collection.delete on Chroma; on
\* Supabase the DELETE statement of a transaction, which sees the rows
\* committed so far and takes effect with the commit
WorkerDelete(i) ==
    /\ bt_workers[i].pc = "delete"
    /\ LET source_id == bt_call.items[i].source_id
       IN  IF backend = "chroma"
           THEN /\ collection' = ChromaDelete(collection, source_id)
                /\ bt_workers' = [bt_workers EXCEPT ![i].pc = "add"]
           ELSE /\ bt_workers' =
                       [bt_workers EXCEPT
                           ![i].pc = "add",
                           ![i].marked =
                               BagWhere(document_chunks,
                                        {row \in DOMAIN document_chunks :
                                            row.source_id = source_id})]
                /\ UNCHANGED collection
    /\ UNCHANGED <<bt_pc, bt_call, bt_result, backend, document_chunks, vs_last,
                   ce_vars, dd_vars, dq_vars, ch_vars, sh_vars, bk_vars, more_vars>>

\* store_chunks of worker i, second half: collection.add on Chroma; on
\* Supabase the INSERT and the commit. When the backend fails here, Chroma
\* has deleted already and Supabase rolls the transaction back.
WorkerAdd(i) ==
    /\ bt_workers[i].pc = "add"
    /\ LET item == bt_call.items[i]
           worker == bt_workers[i]
       IN  IF item.store_fails
           THEN /\ bt_workers' =
                       [bt_workers EXCEPT
                           ![i].pc = "done",
                           ![i].outcome = WorkerExcept(bt_call.op, item, "StorageError")]
                /\ UNCHANGED <<collection, document_chunks>>
           ELSE /\ bt_workers' = [bt_workers EXCEPT ![i].pc = "done",
                                                    ![i].outcome = Returned(TRUE)]
                /\ IF backend = "chroma"
                   THEN /\ collection' =
                               ChromaAdd(collection,
                                         {ChromaEntry(item.source_id, worker.chunks[k]) :
                                             k \in DOMAIN worker.chunks})
                        /\ UNCHANGED document_chunks
                   ELSE /\ document_chunks' =
                               (document_chunks (-) worker.marked)
                               (+) SetToBag({SupabaseRow(item.source_id, worker.chunks[k]) :
                                                k \in DOMAIN worker.chunks})
                        /\ UNCHANGED collection
    /\ UNCHANGED <<bt_pc, bt_call, bt_result, backend, vs_last,
                   ce_vars, dd_vars, dq_vars, ch_vars, sh_vars, bk_vars, more_vars>>

\* the source_ids of the items of a batch
BatchSources(items) == {items[i].source_id : i \in DOMAIN items}

\* the loop over the futures, once the pool has finished every item:
\* future.result() raises again what its worker raised; a later item of the
\* same source_id overwrites the entry of an earlier one
BatchCollect ==
    /\ bt_pc = "running"
    /\ \A i \in DOMAIN bt_workers : bt_workers[i].pc = "done"
    /\ LET items == bt_call.items
           raising == {i \in DOMAIN items : bt_workers[i].outcome.raised # None}
           LastOf(source_id) ==
               CHOOSE i \in DOMAIN items :
                   /\ items[i].source_id = source_id
                   /\ \A j \in DOMAIN items : items[j].source_id = source_id => j <= i
       IN  bt_result' =
               IF raising # {}
               THEN [raised |-> bt_workers[CHOOSE i \in raising :
                                    \A j \in raising : i <= j].outcome.raised,
                     results |-> <<>>]
               ELSE [raised |-> None,
                     results |-> [source_id \in BatchSources(items) |->
                                     bt_workers[LastOf(source_id)].outcome.value]]
    /\ bt_pc' = "returned"
    /\ UNCHANGED <<bt_call, bt_workers, ce_vars, dd_vars, dq_vars, vs_vars, ch_vars, sh_vars, bk_vars, more_vars>>

NextBatch ==
    \/ \E i \in DOMAIN bt_workers : WorkerBegin(i) \/ WorkerDelete(i) \/ WorkerAdd(i)
    \/ BatchCollect
SpecBatch == InitBatch /\ [][NextBatch]_vars

\* the items of the batch whose worker did not end with True
FailedItems ==
    {i \in DOMAIN bt_workers : bt_workers[i].outcome # Returned(TRUE)}

\* the chunks the worker of item i made are in the store, each with its
\* index and text
IsIngested(i) ==
    /\ bt_workers[i].chunks # <<>>
    /\ \A k \in DOMAIN bt_workers[i].chunks :
          \E stored \in StoredChunks(bt_call.items[i].source_id) :
              /\ stored.chunk_index = bt_workers[i].chunks[k].chunk_index
              /\ stored.content = bt_workers[i].chunks[k].content

\* no two items of the batch name the same source
DistinctSources ==
    \A i, j \in DOMAIN bt_call.items :
        bt_call.items[i].source_id = bt_call.items[j].source_id => i = j

\* C13: when one source of a process_sources or upload_batch call fails, the
\* call still returns a result map with an entry for every submitted
\* source_id, false for the failed one, and every other source is ingested.
C13_BatchResults ==
    (bt_pc = "returned" /\ DistinctSources /\ Cardinality(FailedItems) = 1) =>
        /\ bt_result.raised = None
        /\ DOMAIN bt_result.results = BatchSources(bt_call.items)
        /\ \A i \in DOMAIN bt_call.items :
              IF i \in FailedItems
              THEN bt_result.results[bt_call.items[i].source_id] = FALSE
              ELSE IsIngested(i)

\* how many stored chunks of a source carry a chunk_index
IndexCount(source_id, chunk_index) ==
    IF backend = "chroma"
    THEN Cardinality({e \in collection :
                         /\ e.metadata.source_id = source_id
                         /\ e.metadata.chunk_index = chunk_index})
    ELSE BagCardinality(BagWhere(document_chunks,
             {row \in DOMAIN document_chunks :
                 row.source_id = source_id /\ row.chunk_index = chunk_index}))

\* C15: whatever the interleaving of the store_chunks calls of the workers,
\* two of them ingesting one source_id included, no two stored chunks have
\* the same (source_id, chunk_index).
C15_IndexUnique ==
    \A source_id \in BatchSources(bt_call.items) \cup {"A", "B"} :
        \A chunk_index \in 0..MaxChunks : IndexCount(source_id, chunk_index) <= 1

\* the worker of item i gets as far as the embeddings, and the provider
\* fails on one of its chunks
EmbeddingFails(i) ==
    LET item == bt_call.items[i]
        chunked == chunk_text(item.text)
    IN  /\ chunked.raised = None
        /\ item.fail_at \in DOMAIN chunked.value
        /\ IF bt_call.op = "process_sources"
           THEN item.source_id \in DOMAIN source_metadata /\ item.readable
           ELSE item.kind = "text" \/ (item.kind = "filepath" /\ item.readable)

\* what the store held for a source before the batch
StoredBefore(source_id) ==
    {[chunk_index |-> OldChunks(source_id)[k].chunk_index,
      content |-> OldChunks(source_id)[k].content,
      embedding |-> OldChunks(source_id)[k].embedding] :
        k \in DOMAIN OldChunks(source_id)}

\* C18: an ingestion in which the embedding of a chunk fails never reaches
\* store_chunks and does not end with True; the chunks stored before for its
\* source stay as they were, and none of its new chunks is stored.
C18_EmbeddingFatal ==
    \A i \in DOMAIN bt_workers :
        EmbeddingFails(i) =>
            /\ bt_workers[i].pc \in {"queued", "done"}
            /\ bt_workers[i].chunks = <<>>
            /\ bt_workers[i].pc = "done" => bt_workers[i].outcome # Returned(TRUE)
            /\ (\A j \in DOMAIN bt_workers :
                   bt_call.items[j].source_id = bt_call.items[i].source_id
                       => EmbeddingFails(j))
                   => /\ StoredChunks(bt_call.items[i].source_id)
                             = StoredBefore(bt_call.items[i].source_id)
                      /\ StoredCount(bt_call.items[i].source_id) = 1

\* process_sources returned: the second chunk of source B got no embedding
\* and B still holds its old chunk, while source A was ingested anew
C18_Witness ==
    /\ bt_pc = "returned"
    /\ bt_call.op = "process_sources"
    /\ \E i, j \in DOMAIN bt_workers :
          /\ EmbeddingFails(i)
          /\ bt_call.items[i].fail_at = 2
          /\ bt_call.items[i].source_id = "B"
          /\ bt_result.results["B"] = FALSE
          /\ StoredChunks("B") = StoredBefore("B")
          /\ bt_call.items[j].source_id = "A"
          /\ bt_workers[j].outcome = Returned(TRUE)
          /\ StoredChunks("A") # StoredBefore("A")

\* ------------------------- two engineer_context calls on shared records
\* the records both callers hold; a raw_documents list is a list of
\* positions in it, since a Python list holds references to its dicts
SharedDocs == <<DocShortA, DocMidB, DocTinyC>>
RefLists == {<<1, 2>>, <<2, 1>>, <<1, 2, 3>>, <<2, 3>>, <<3>>}

SharedEngines ==
    {PipelineEngine, [PipelineEngine EXCEPT !.enable_compression = FALSE]}

StartedCall(query, refs, metadata) ==
    [pc |-> "start", query |-> query, refs |-> refs, source_metadata |-> metadata,
     filtered |-> <<>>, ranked |-> <<>>, returned |-> NoResult]

\* the records a list of references stands for, as they are now
Deref(docs, refs) == Tuple([k \in DOMAIN refs |-> docs[refs[k]]])

\* steps 1 to 4 of engineer_context on records tagged with their position:
\* the references of the filtered and of the ranked list
RankRefs(self, docs, call) ==
    LET tagged == Tuple([k \in DOMAIN call.refs |->
                      Put(docs[call.refs[k]], "ref", call.refs[k])])
        filtered == _filter_by_relevance(self, tagged)
        filtered_docs == IF self.enable_deduplication
                         THEN _deduplicate_documents(filtered) ELSE filtered
        ranked == _rank_documents(filtered_docs, call.query, call.source_metadata)
    IN  [filtered |-> Tuple([k \in DOMAIN filtered_docs |-> filtered_docs[k].ref]),
         ranked |-> Tuple([k \in DOMAIN ranked |-> ranked[k].ref])]

InitShared ==
    /\ engine \in SharedEngines
    /\ ce_pc = "idle" /\ ce_call = NoCall /\ ce_result = NoResult /\ raw_documents = <<>>
    /\ sh_docs = SharedDocs
    /\ \E first \in RefLists \X Metadatas :
       \E second \in {QueryHow, QueryCompare} \X RefLists \X Metadatas :
           sh_calls = <<StartedCall(QueryHow, first[1], first[2]),
                        StartedCall(second[1], second[2], second[3])>>
    /\ DdIdle /\ DqIdle /\ VsIdle /\ ChIdle /\ BtIdle /\ BkIdle /\ MoreIdle

\* call c runs up to the end of _rank_documents, whose loop writes
\* rank_position into the shared records
CallRank(c) ==
    /\ sh_calls[c].pc = "start"
    /\ LET refs == RankRefs(engine, sh_docs, sh_calls[c])
       IN  /\ sh_docs' =
                  [r \in DOMAIN sh_docs |->
                      IF \E k \in DOMAIN refs.ranked : refs.ranked[k] = r
                      THEN Put(sh_docs[r], "rank_position",
                               CHOOSE k \in DOMAIN refs.ranked : refs.ranked[k] = r)
                      ELSE sh_docs[r]]
           /\ sh_calls' = [sh_calls EXCEPT ![c].pc = "ranked",
                                           ![c].filtered = refs.filtered,
                                           ![c].ranked = refs.ranked]
    /\ UNCHANGED <<ce_vars, dd_vars, dq_vars, vs_vars, ch_vars, bt_vars, bk_vars, more_vars>>

\* call c runs steps 5 to 8, which copy the records as they are by then,
\* and returns
CallFinish(c) ==
    /\ sh_calls[c].pc = "ranked"
    /\ LET call == sh_calls[c]
           frame == EngineerFromRanked(engine, call.query, Deref(sh_docs, call.refs),
                                       _detect_query_type(call.query),
                                       call.source_metadata,
                                       Deref(sh_docs, call.filtered),
                                       Deref(sh_docs, call.ranked))
       IN  sh_calls' = [sh_calls EXCEPT ![c].pc = "returned",
                                        ![c].returned = frame.returned]
    /\ UNCHANGED <<sh_docs, ce_vars, dd_vars, dq_vars, vs_vars, ch_vars, bt_vars, bk_vars, more_vars>>

NextShared == \E c \in DOMAIN sh_calls : CallRank(c) \/ CallFinish(c)
SpecShared == InitShared /\ [][NextShared]_vars

\* what call c returns when it runs alone on the records as they were given
ReturnedAlone(c) ==
    engineer_context(engine, sh_calls[c].query, Deref(SharedDocs, sh_calls[c].refs),
                     None, sh_calls[c].source_metadata)

\* C14: engineer_context leaves the records of raw_documents as they were,
\* and each of two concurrent calls on one engine that share document
\* records returns what it returns when run alone.
C14_Isolated ==
    /\ sh_docs \in {<<>>, SharedDocs}
    /\ \A c \in DOMAIN sh_calls :
          sh_calls[c].pc = "returned" => sh_calls[c].returned = ReturnedAlone(c)

\* the three fields of enrichment as the metadata lookup gives them for a
\* source_id, with the defaults for what the lookup lacks
EnrichmentOf(source_id, metadata) ==
    LET meta == Get(metadata, source_id, <<>>)
    IN  [source_name |-> Get(meta, "display_name", source_id),
         source_type |-> Get(meta, "source_type", "unknown"),
         source_authority |-> Get(meta, "is_authoritative", FALSE)]

\* C16: every returned document carries source_name, source_type and
\* source_authority, taken from the metadata of its source when the lookup
\* has it and else source_id, "unknown" and false.
C16_Enriched ==
    ce_pc = "returned" =>
        \A i \in DOMAIN ce_result.documents :
            LET doc == ce_result.documents[i]
                expected == EnrichmentOf(doc.source_id, ce_call.source_metadata)
            IN  /\ {"source_name", "source_type", "source_authority"} \subseteq DOMAIN doc
                /\ doc.source_name = expected.source_name
                /\ doc.source_type = expected.source_type
                /\ doc.source_authority = expected.source_authority

\* how many raw documents of the call the relevance filter keeps
PassFilterCount ==
    Cardinality({i \in DOMAIN ce_call.raw_documents :
                    ce_call.raw_documents[i].relevance_score >= engine.min_relevance_score})

\* C17: original_count is the number of raw documents, filtered_count the
\* number left after the relevance filter, final_count the number returned,
\* and estimated_tokens the summed token cost of the returned documents.
C17_Stats ==
    ce_pc = "returned" =>
        /\ ce_result.context_stats.original_count = Len(ce_call.raw_documents)
        /\ ce_result.context_stats.filtered_count = PassFilterCount
        /\ ce_result.context_stats.final_count = Len(ce_result.documents)
        /\ ce_result.context_stats.estimated_tokens = TokenSum(ce_result.documents)

\* ------------------------------ engineer_context on a malformed raw match
\* matches that lack relevance_score, content or source_id
BadNoScore == [source_id |-> "A", page_number |-> 5, content |-> TextMid]
BadNoContent == [source_id |-> "B", page_number |-> 5, relevance_score |-> 9500]
BadNoSource == [page_number |-> 5, content |-> TextMid, relevance_score |-> 9500]
BadDocs == {BadNoScore, BadNoContent, BadNoSource}

IsWellFormed(doc) == {"relevance_score", "content", "source_id"} \subseteq DOMAIN doc

\* the raw lists: well-formed matches with one malformed match among them
MalformedLists ==
    {SubSeq(good, 1, at) \o <<bad>> \o SubSeq(good, at + 1, Len(good)) :
        <<good, at, bad>> \in
            {t \in Arrangements({DocShortA, DocMidB, DocTinyC}, MaxDocs - 1)
                       \X (0..(MaxDocs - 1)) \X BadDocs :
                Len(t[1]) >= 1 /\ t[2] <= Len(t[1])}}

InitMalformed ==
    /\ engine \in {PipelineEngine, DefaultEngine}
    /\ ce_pc = "idle"
    /\ \E head \in CallHeads, raws \in MalformedLists, metadata \in Metadatas :
          ce_call = [query |-> head[1], raw_documents |-> raws,
                     query_type |-> head[2], source_metadata |-> metadata]
    /\ ce_result = NoResult
    /\ raw_documents = <<>>
    /\ DdIdle /\ DqIdle /\ VsIdle /\ ExtIdle

NextMalformed == EngineerContext
SpecMalformed == InitMalformed /\ [][NextMalformed]_vars

\* C19: engineer_context on a list that holds a malformed match returns the
\* documents it returns for the well-formed matches of the list alone.
C19_BadSkipped ==
    ce_pc = "returned" =>
        ce_result.documents =
            engineer_context(engine, ce_call.query,
                             SelectSeq(ce_call.raw_documents, IsWellFormed),
                             ce_call.query_type, ce_call.source_metadata).documents

\* ------------------------------------------- construction of the backends
\* ChromaVectorStore.__init__
ChromaVectorStoreInit(env) ==
    IF ~env.chromadb
    THEN [NoBackend EXCEPT !.raised = "RuntimeError"]
    ELSE [raised |-> None, kind |-> "chroma", dsn |-> Nothing]

\* SupabaseVectorStore.__init__(dsn, embedding_dimensions): the dsn is kept
\* as given
SupabaseVectorStoreInit(env, dsn) ==
    IF ~env.psycopg2
    THEN [NoBackend EXCEPT !.raised = "RuntimeError"]
    ELSE [raised |-> None, kind |-> "supabase", dsn |-> dsn]

\* x or y, for optional strings: x unless it is None or empty
OrElse(x, y) == IF x = Nothing \/ x = Some("") THEN y ELSE x

\* RAGPipeline._create_vector_store, with the fallbacks to the settings that
\* RAGPipeline.__init__ applies to its arguments
_create_vector_store(env) ==
    LET test_with_chromadb == IF env.test_with_chromadb # Nothing
                              THEN env.test_with_chromadb[1]
                              ELSE env.settings_test_with_chromadb
        supabase_dsn == OrElse(env.supabase_dsn, env.settings_supabase_db_url)
    IN  IF test_with_chromadb
        THEN ChromaVectorStoreInit(env)
        ELSE IF supabase_dsn = Nothing \/ supabase_dsn = Some("")
        THEN [NoBackend EXCEPT !.raised = "RuntimeError"]
        ELSE SupabaseVectorStoreInit(env, supabase_dsn)

\* who constructs the backend (the pipeline, or a caller of one of the two
\* constructors), the libraries installed, the arguments and the settings
BackendEnvs ==
    [route : {"pipeline", "chroma", "supabase"},
     chromadb : BOOLEAN,
     psycopg2 : BOOLEAN,
     test_with_chromadb : {Nothing, Some(TRUE), Some(FALSE)},
     settings_test_with_chromadb : BOOLEAN,
     supabase_dsn : {Nothing, Some(""), Some("postgresql://db")},
     settings_supabase_db_url : {Nothing, Some("postgresql://db")}]

InitBackend ==
    /\ bk_pc = "start"
    /\ bk_env \in BackendEnvs
    /\ bk_backend = NoBackend
    /\ bk_last = NoOperation
    /\ CeIdle /\ DdIdle /\ DqIdle /\ VsIdle /\ ChIdle /\ BtIdle /\ ShIdle /\ MoreIdle

\* the construction, by the route of the environment
ConstructBackend ==
    /\ bk_pc = "start"
    /\ bk_backend' =
           IF bk_env.route = "pipeline" THEN _create_vector_store(bk_env)
           ELSE IF bk_env.route = "chroma" THEN ChromaVectorStoreInit(bk_env)
           ELSE SupabaseVectorStoreInit(bk_env, bk_env.supabase_dsn)
    /\ bk_pc' = IF bk_backend'.raised # None THEN "failed" ELSE "constructed"
    /\ UNCHANGED <<bk_env, bk_last, ce_vars, dd_vars, dq_vars, vs_vars, ch_vars,
                   bt_vars, sh_vars, more_vars>>

\* store_chunks or query on the constructed backend: on Supabase both begin
\* with psycopg2.connect(self.dsn), which fails without a dsn
UseBackend ==
    /\ bk_pc = "constructed"
    /\ \E op \in {"store_chunks", "query"} :
          bk_last' =
              [op |-> op,
               raised |-> IF /\ bk_backend.kind = "supabase"
                             /\ (bk_backend.dsn = Nothing \/ bk_backend.dsn = Some(""))
                          THEN "OperationalError" ELSE None]
    /\ bk_pc' = "used"
    /\ UNCHANGED <<bk_env, bk_backend, ce_vars, dd_vars, dq_vars, vs_vars, ch_vars,
                   bt_vars, sh_vars, more_vars>>

NextBackend == ConstructBackend \/ UseBackend
SpecBackend == InitBackend /\ [][NextBackend]_vars

\* the backend the environment asks for
WantedKind ==
    IF bk_env.route # "pipeline" THEN bk_env.route
    ELSE IF (IF bk_env.test_with_chromadb # Nothing
             THEN bk_env.test_with_chromadb[1] ELSE bk_env.settings_test_with_chromadb)
    THEN "chroma" ELSE "supabase"

\* the library of the wanted backend is absent, or it is Supabase and no
\* DSN is configured
IsMisconfigured ==
    \/ WantedKind = "chroma" /\ ~bk_env.chromadb
    \/ WantedKind = "supabase" /\ ~bk_env.psycopg2
    \/ /\ WantedKind = "supabase"
       /\ IF bk_env.route = "pipeline"
          THEN OrElse(bk_env.supabase_dsn, bk_env.settings_supabase_db_url) = Nothing
          ELSE bk_env.supabase_dsn \in {Nothing, Some("")}

\* C20: constructing a backend whose library or configuration is missing
\* fails at construction with a ConfigurationError, and no store or query
\* operation runs on it.
C20_ConfigurationError ==
    (bk_pc # "start" /\ IsMisconfigured) =>
        /\ bk_pc = "failed"
        /\ bk_backend.raised = "ConfigurationError"
        /\ bk_last.op = None

\* ------------------------------------- _assemble_by_query_type as a machine
\* The ranked lists handed to assembly: one document per entry of a sequence
\* of source ids, told apart by the rank_position _rank_documents gave them.
MaxRanked == 6
RankedSources == {"A", "B", "C", "D"}
RankedDoc(source_id, i) ==
    [source_id |-> source_id, content |-> TextTiny,
     relevance_score |-> One - i, rank_position |-> i]
RankedList(sources) == [i \in 1..Len(sources) |-> RankedDoc(sources[i], i)]
RankedLists == {RankedList(sources) : sources \in SeqsUpTo(RankedSources, MaxRanked)}


InitAssemble ==
    /\ fn_pc = "start"
    /\ \E documents \in RankedLists, query_type \in QueryTypes :
           fn_arg = [documents |-> documents, query_type |-> query_type,
                     max_context_tokens |-> 0]
    /\ fn_out = NoOutput
    /\ CeIdle /\ DdIdle /\ DqIdle /\ VsIdle
    /\ ChIdle /\ BtIdle /\ ShIdle /\ BkIdle /\ PtIdle

AssembleByQueryType ==
    /\ fn_pc = "start"
    /\ fn_pc' = "done"
    /\ fn_out' = [NoOutput EXCEPT
                    !.diversified = _diversify_sources(fn_arg.documents),
                    !.assembled = _assemble_by_query_type(fn_arg.documents, fn_arg.query_type)]
    /\ UNCHANGED <<fn_arg, ce_vars, dd_vars, dq_vars, vs_vars, ch_vars, bt_vars, sh_vars, bk_vars, pt_vars>>

NextAssemble == AssembleByQueryType
SpecAssemble == InitAssemble /\ [][NextAssemble]_vars

\* the distinct source ids among the first n documents of a list
SourcesBefore(documents, n) ==
    {documents[j].source_id : j \in 1..Min(n, Len(documents))}
\* document i of the list repeats the source of an earlier one
IsRepeat(documents, i) == documents[i].source_id \in SourcesBefore(documents, i - 1)
\* the positions, in the ranked list, of the documents a result kept
KeptPositions(result) == {result[k].rank_position : k \in 1..Len(result)}
DiversifyThreshold == 3

\* C21: diversification for analytical queries keeps the first match of every
\* distinct source in ranked order, and keeps a repeated-source match only
\* once 3 distinct sources have been accumulated before it.
C21_RepeatsAfterThree ==
    (fn_pc = "done" /\ fn_arg.query_type = "analytical") =>
        LET documents == fn_arg.documents
            kept == KeptPositions(fn_out.diversified)
        IN  /\ \A i \in 1..Len(documents) : ~IsRepeat(documents, i) => i \in kept
            /\ \A i \in kept :
                   IsRepeat(documents, i) =>
                       Cardinality(SourcesBefore(documents, i - 1)) >= DiversifyThreshold

\* the count assembly slices to, by query type
AssemblyCount(query_type) ==
    IF query_type = "factual" THEN FactualCount
    ELSE IF query_type = "explanatory" THEN ExplanatoryCount
    ELSE IF query_type = "analytical" THEN AnalyticalCount
    ELSE IF query_type = "advisory" THEN AdvisoryCount
    ELSE GeneralCount
\* the list assembly slices: the diversified one for analytical queries
SlicedList == IF fn_arg.query_type = "analytical" THEN fn_out.diversified ELSE fn_arg.documents

\* C23: assembly returns at most 3 documents for factual, 5 for explanatory,
\* 5 for analytical, 4 for advisory and 4 for any other query type, and what
\* it returns is a prefix of the ranked list (of the diversified list for
\* analytical queries).
C23_SlicedPrefix ==
    fn_pc = "done" =>
        /\ Len(fn_out.assembled) <= AssemblyCount(fn_arg.query_type)
        /\ Len(fn_out.assembled) <= Len(SlicedList)
        /\ fn_out.assembled = Take(SlicedList, Len(fn_out.assembled))
        /\ Len(fn_out.assembled) = Min(AssemblyCount(fn_arg.query_type), Len(SlicedList))
C23_Witness ==
    /\ fn_pc = "done"
    /\ fn_arg.query_type = "advisory"
    /\ Len(fn_arg.documents) = MaxRanked
    /\ Len(fn_out.assembled) = AdvisoryCount

\* ------------------------------------------- _fit_token_budget as a machine
FitBudgets == {60, 116, 150, 3000}
EngineWithBudget(max_context_tokens) ==
    [DefaultEngine EXCEPT !.max_context_tokens = max_context_tokens]

InitFit ==
    /\ fn_pc = "start"
    /\ \E documents \in RawLists, max_context_tokens \in FitBudgets :
           fn_arg = [documents |-> documents, query_type |-> None,
                     max_context_tokens |-> max_context_tokens]
    /\ fn_out = NoOutput
    /\ CeIdle /\ DdIdle /\ DqIdle /\ VsIdle
    /\ ChIdle /\ BtIdle /\ ShIdle /\ BkIdle /\ PtIdle

FitTokenBudget ==
    /\ fn_pc = "start"
    /\ fn_pc' = "done"
    /\ fn_out' = [NoOutput EXCEPT
                    !.fitted = _fit_token_budget(EngineWithBudget(fn_arg.max_context_tokens),
                                                 fn_arg.documents)]
    /\ UNCHANGED <<fn_arg, ce_vars, dd_vars, dq_vars, vs_vars, ch_vars, bt_vars, sh_vars, bk_vars, pt_vars>>

NextFit == FitTokenBudget
SpecFit == InitFit /\ [][NextFit]_vars

\* the estimated tokens of the first n documents of a list
PrefixTokens(documents, n) == _estimate_tokens(Take(documents, n))
\* how many leading documents fit the budget whole
FittingPrefix(documents, budget) ==
    CHOOSE n \in 0..Len(documents) :
        /\ PrefixTokens(documents, n) <= budget
        /\ n < Len(documents) => PrefixTokens(documents, n + 1) > budget
        /\ \A m \in 0..n : PrefixTokens(documents, m) <= budget
\* copy is doc with its content cut to max_tokens * 4 characters plus the
\* ellipsis, flagged truncated, and nothing else changed
IsCutCopy(copy, doc, max_tokens) ==
    /\ DOMAIN copy = DOMAIN doc \cup {"truncated"}
    /\ copy["content"] = Take(doc["content"], max_tokens * CharsPerToken) \o Ellipsis
    /\ Len(doc["content"]) > max_tokens * CharsPerToken
    /\ copy["truncated"] = TRUE
    /\ \A key \in DOMAIN doc \ {"content", "truncated"} : copy[key] = doc[key]
FlaggedTruncated(doc) == "truncated" \in DOMAIN doc /\ doc["truncated"] = TRUE

C22_WitnessDropped ==
    /\ fn_pc = "done"
    /\ fn_arg.max_context_tokens = 150
    /\ Len(fn_out.fitted) = 1
    /\ Len(fn_arg.documents) = 3
    /\ _estimate_doc_tokens(fn_arg.documents[3]) = 0

\* ------------------------------------------------- the over-fetch of Chroma
\* the entries of the collection a query selects that reach its threshold
Candidates(q) ==
    {e \in ChromaWhere(collection, q.source_ids) :
        CosineSimilarity(e.embedding, q.query_embedding) >= q.min_relevance}
\* the match record of an entry
MatchOf(e, q) ==
    [source_id |-> e.metadata.source_id, page_number |-> e.metadata.chunk_index,
     content |-> e.document,
     relevance_score |-> Round3(CosineSimilarity(e.embedding, q.query_embedding))]
\* what the query contract calls for: the top limit of the candidates by
\* falling relevance, in any order among equally relevant ones
ContractLists(q) ==
    LET scored == {<<One - CosineSimilarity(e.embedding, q.query_embedding), e>> :
                      e \in Candidates(q)}
    IN  {Take(Tuple([k \in DOMAIN order |-> MatchOf(order[k][2], q)]), q.limit) :
            order \in NearestOrders(scored)}
\* the query met more candidates than its over-fetch window holds
BeyondWindow(q) == Cardinality(Candidates(q)) > 2 * q.limit

\* C24 as amended: the over-fetch window of the Chroma query holds the
\* max(limit*2, limit) nearest candidates, so the top limit matches with
\* relevance >= min_relevance are always inside it: the query returns exactly
\* what the contract calls for, however many chunks reach the threshold.
C24_WindowSuffices ==
    (vs_last.op = "search" /\ backend = "chroma") =>
        vs_last.matches \in ContractLists(vs_last.query)
C24_Witness ==
    /\ vs_last.op = "search"
    /\ backend = "chroma"
    /\ BeyondWindow(vs_last.query)
    /\ Len(vs_last.matches) = vs_last.query.limit
\* C24 as stated: when more than 2*limit stored chunks reach the threshold,
\* the Chroma query drops results the contract (the top limit matches with
\* relevance >= min_relevance) calls for.
C24_WindowDrops ==
    (vs_last.op = "search" /\ backend = "chroma" /\ BeyondWindow(vs_last.query)) =>
        vs_last.matches \notin ContractLists(vs_last.query)

\* ------------------------------------ batches ingested one after the other
\* what the stores hold before the batch
CollectionBefore ==
    ChromaStoreChunks(ChromaStoreChunks({}, "A", OldChunks("A")), "B", OldChunks("B"))
TableBefore ==
    SupabaseStoreChunks(SupabaseStoreChunks(EmptyBag, "A", OldChunks("A")),
                        "B", OldChunks("B"))
\* the chunk records the worker of an item hands to store_chunks
PreparedChunks(op, item) ==
    LET prepared == WorkerPrepare(op, item)
    IN  ChunkRecords(item.source_id, prepared.chunks, prepared.embeddings)
\* one item ingested with no other worker running: the collection, or the
\* table, it leaves
IngestAloneChroma(store, op, item) ==
    IF WorkerPrepare(op, item).raised # None THEN store
    ELSE IF item.store_fails THEN ChromaDelete(store, item.source_id)
    ELSE ChromaAdd(ChromaDelete(store, item.source_id),
                   {ChromaEntry(item.source_id, PreparedChunks(op, item)[k]) :
                       k \in DOMAIN PreparedChunks(op, item)})
IngestAloneSupabase(table, op, item) ==
    IF WorkerPrepare(op, item).raised # None \/ item.store_fails THEN table
    ELSE SupabaseStoreChunks(table, item.source_id, PreparedChunks(op, item))
\* the items of a batch ingested one after the other, the first n of them
RECURSIVE SequentialChroma(_, _, _)
SequentialChroma(op, items, n) ==
    IF n = 0 THEN CollectionBefore
    ELSE IngestAloneChroma(SequentialChroma(op, items, n - 1), op, items[n])
RECURSIVE SequentialSupabase(_, _, _)
SequentialSupabase(op, items, n) ==
    IF n = 0 THEN TableBefore
    ELSE IngestAloneSupabase(SequentialSupabase(op, items, n - 1), op, items[n])
AllWorkersDone == \A i \in DOMAIN bt_workers : bt_workers[i].pc = "done"
\* the chunks of a worker in the form StoredChunks gives
OwnChunks(i) ==
    {[chunk_index |-> bt_workers[i].chunks[k].chunk_index,
      content |-> bt_workers[i].chunks[k].content,
      embedding |-> bt_workers[i].chunks[k].embedding] :
        k \in DOMAIN bt_workers[i].chunks}

\* C25: when every item of a batch names a different source, then however
\* the workers interleave, the store ends with the content that ingesting
\* the items one after the other gives, and every ingested source holds
\* exactly the chunks of its own worker.
C25_Independent ==
    (AllWorkersDone /\ DistinctSources) =>
        /\ backend = "chroma" =>
               collection = SequentialChroma(bt_call.op, bt_call.items, Len(bt_call.items))
        /\ backend = "supabase" =>
               document_chunks
                   = SequentialSupabase(bt_call.op, bt_call.items, Len(bt_call.items))
        /\ \A i \in DOMAIN bt_workers :
               bt_workers[i].outcome = Returned(TRUE) =>
                   /\ StoredChunks(bt_call.items[i].source_id) = OwnChunks(i)
                   /\ StoredCount(bt_call.items[i].source_id) = Len(bt_workers[i].chunks)
C25_Witness ==
    /\ bt_pc = "returned"
    /\ DistinctSources
    /\ Len(bt_call.items) = 2
    /\ \A i \in DOMAIN bt_workers : bt_workers[i].outcome = Returned(TRUE)
    /\ StoredChunks("A") # StoredBefore("A")
    /\ StoredChunks("B") # StoredBefore("B")

\* ------------------------------------------- a reader beside the ingestion
\* a query for everything stored for one source: any relevance, and a limit
\* no source of the batch exceeds
ReaderLimit == 4
ReaderQuery(source_id) ==
    [query_embedding |-> 1, limit |-> ReaderLimit, source_ids |-> <<source_id>>,
     min_relevance |-> 0 - One]

\* VectorStoreService.search called from another thread while the pool works
ReaderSearch ==
    /\ bt_pc = "running"
    /\ \E source_id \in {"A", "B"} : \E results \in Query(ReaderQuery(source_id)) :
           vs_last' = [op |-> "search", source_id |-> None, chunks |-> <<>>,
                       embeddings |-> <<>>, query |-> ReaderQuery(source_id),
                       outcome |-> "ok", matches |-> results]
    /\ UNCHANGED <<backend, collection, document_chunks, ce_vars, dd_vars, dq_vars,
                   ch_vars, bt_vars, sh_vars, bk_vars, more_vars>>

NextReplace == NextBatch \/ ReaderSearch
SpecReplace == InitBatch /\ [][NextReplace]_vars

\* the one item of the batch that names the source, when there is just one
\* and its store call succeeds
ReplacesAlone(i, source_id) ==
    /\ bt_call.items[i].source_id = source_id
    /\ \A j \in DOMAIN bt_call.items : bt_call.items[j].source_id = source_id => j = i
    /\ WorkerPrepare(bt_call.op, bt_call.items[i]).raised = None
    /\ ~bt_call.items[i].store_fails
\* the texts of a list of matches, of the old chunks and of the new ones
MatchTexts(matches) == {matches[k].content : k \in DOMAIN matches}
OldTexts(source_id) == {chunk.content : chunk \in StoredBefore(source_id)}
NewTexts(i) ==
    LET chunks == PreparedChunks(bt_call.op, bt_call.items[i])
    IN  {chunks[k].content : k \in DOMAIN chunks}

\* C26: a query that runs beside store_chunks(source_id, new_chunks) sees for
\* that source either only chunks of the old content or only chunks of the
\* new content: never no chunk at all, never old and new chunks together.
C26_AtomicForReaders ==
    vs_last.op = "search" =>
        LET source_id == vs_last.query.source_ids[1]
        IN  \A i \in DOMAIN bt_call.items :
                ReplacesAlone(i, source_id) =>
                    /\ vs_last.matches # <<>>
                    /\ \/ MatchTexts(vs_last.matches) \subseteq OldTexts(source_id)
                       \/ MatchTexts(vs_last.matches) \subseteq NewTexts(i)
\* the same, on the Supabase backend alone
C26_AtomicOnSupabase == backend = "supabase" => C26_AtomicForReaders

\* ------------------------------------------------- a store call that fails
\* the worker of item i reaches store_chunks, the insert fails, and no other
\* item of the batch names its source
InsertFailsAlone(i) ==
    /\ bt_call.items[i].store_fails
    /\ WorkerPrepare(bt_call.op, bt_call.items[i]).raised = None
    /\ \A j \in DOMAIN bt_call.items :
           bt_call.items[j].source_id = bt_call.items[i].source_id => j = i

\* C27: when the insert of store_chunks(source_id, chunks) fails after the
\* delete of the old chunks was issued, the chunks stored before for the
\* source are still there afterwards, and the failure reaches the caller of
\* VectorStoreService as a StorageError.
C27_FailedStoreKeeps ==
    \A i \in DOMAIN bt_workers :
        (InsertFailsAlone(i) /\ bt_workers[i].pc = "done") =>
            /\ StoredChunks(bt_call.items[i].source_id)
                   = StoredBefore(bt_call.items[i].source_id)
            /\ StoredCount(bt_call.items[i].source_id) = 1
            /\ bt_workers[i].outcome
                   = WorkerExcept(bt_call.op, bt_call.items[i], "StorageError")
\* the same, on the Supabase backend alone
C27_KeepsOnSupabase == backend = "supabase" => C27_FailedStoreKeeps

\* --------------------------------- the overrides of _process_text at work
\* the chunk_size and chunk_overlap an item may carry: none, or a value
SizeOverrides == {Nothing, Some(200)}
OverlapOverrides == {Nothing, Some(20)}
ProcessTextCalls ==
    SeqsUpTo([chunk_size : SizeOverrides, chunk_overlap : OverlapOverrides], MaxItems)
        \ {<<>>}
QueuedProcessText == [pc |-> "queued", original_chunk_size |-> 0, original_chunk_overlap |-> 0]
rest_vars == <<ce_vars, dd_vars, dq_vars, vs_vars, ch_vars, bt_vars, sh_vars, bk_vars, fn_vars>>

InitOverride ==
    /\ doc_processor = ProcessorBefore
    /\ pt_calls \in ProcessTextCalls
    /\ pt_workers = [i \in DOMAIN pt_calls |-> QueuedProcessText]
    /\ CeIdle /\ DdIdle /\ DqIdle /\ VsIdle
    /\ ChIdle /\ BtIdle /\ ShIdle /\ BkIdle /\ FnIdle

\* original_chunk_size = self.doc_processor.chunk_size
SaveChunkSize(i) ==
    /\ pt_workers[i].pc = "queued"
    /\ pt_workers' = [pt_workers EXCEPT
                         ![i].pc = "save_overlap",
                         ![i].original_chunk_size = doc_processor.chunk_size]
    /\ UNCHANGED <<doc_processor, pt_calls, rest_vars>>
\* original_chunk_overlap = self.doc_processor.chunk_overlap
SaveChunkOverlap(i) ==
    /\ pt_workers[i].pc = "save_overlap"
    /\ pt_workers' = [pt_workers EXCEPT
                         ![i].pc = "set_size",
                         ![i].original_chunk_overlap = doc_processor.chunk_overlap]
    /\ UNCHANGED <<doc_processor, pt_calls, rest_vars>>
\* if chunk_size is not None: self.doc_processor.chunk_size = chunk_size
OverrideChunkSize(i) ==
    /\ pt_workers[i].pc = "set_size"
    /\ pt_workers' = [pt_workers EXCEPT ![i].pc = "set_overlap"]
    /\ doc_processor' =
           IF pt_calls[i].chunk_size # Nothing
           THEN [doc_processor EXCEPT !.chunk_size = pt_calls[i].chunk_size[1]]
           ELSE doc_processor
    /\ UNCHANGED <<pt_calls, rest_vars>>
\* if chunk_overlap is not None: self.doc_processor.chunk_overlap = chunk_overlap
OverrideChunkOverlap(i) ==
    /\ pt_workers[i].pc = "set_overlap"
    /\ pt_workers' = [pt_workers EXCEPT ![i].pc = "body"]
    /\ doc_processor' =
           IF pt_calls[i].chunk_overlap # Nothing
           THEN [doc_processor EXCEPT !.chunk_overlap = pt_calls[i].chunk_overlap[1]]
           ELSE doc_processor
    /\ UNCHANGED <<pt_calls, rest_vars>>
\* the chunking, the embeddings and the store call: whether they return or
\* raise, the finally clause comes next
ProcessTextBody(i) ==
    /\ pt_workers[i].pc = "body"
    /\ pt_workers' = [pt_workers EXCEPT ![i].pc = "restore_size"]
    /\ UNCHANGED <<doc_processor, pt_calls, rest_vars>>
\* finally: self.doc_processor.chunk_size = original_chunk_size
RestoreChunkSize(i) ==
    /\ pt_workers[i].pc = "restore_size"
    /\ pt_workers' = [pt_workers EXCEPT ![i].pc = "restore_overlap"]
    /\ doc_processor' =
           [doc_processor EXCEPT !.chunk_size = pt_workers[i].original_chunk_size]
    /\ UNCHANGED <<pt_calls, rest_vars>>
\* self.doc_processor.chunk_overlap = original_chunk_overlap
RestoreChunkOverlap(i) ==
    /\ pt_workers[i].pc = "restore_overlap"
    /\ pt_workers' = [pt_workers EXCEPT ![i].pc = "done"]
    /\ doc_processor' =
           [doc_processor EXCEPT !.chunk_overlap = pt_workers[i].original_chunk_overlap]
    /\ UNCHANGED <<pt_calls, rest_vars>>

NextOverride ==
    \E i \in DOMAIN pt_workers :
        \/ SaveChunkSize(i) \/ SaveChunkOverlap(i)
        \/ OverrideChunkSize(i) \/ OverrideChunkOverlap(i)
        \/ ProcessTextBody(i)
        \/ RestoreChunkSize(i) \/ RestoreChunkOverlap(i)
SpecOverride == InitOverride /\ [][NextOverride]_vars

\* C28: once every worker of the batch is through, whatever the overrides
\* of the items and however the workers interleaved, the shared
\* DocumentProcessor has the chunk_size and chunk_overlap it had before the
\* batch; and no worker reads a setting another worker has overridden.
C28_SettingsRestored ==
    /\ (\A i \in DOMAIN pt_workers : pt_workers[i].pc = "done")
           => doc_processor = ProcessorBefore
    /\ \A i \in DOMAIN pt_workers :
           /\ pt_workers[i].pc \notin {"queued"}
                  => pt_workers[i].original_chunk_size = ProcessorBefore.chunk_size
           /\ pt_workers[i].pc \notin {"queued", "save_overlap"}
                  => pt_workers[i].original_chunk_overlap = ProcessorBefore.chunk_overlap
\* the same for a batch of one item
C28_RestoredAlone == Len(pt_calls) = 1 => C28_SettingsRestored
\* the first half alone: the settings after the batch
C28_RestoredAtEnd ==
    (\A i \in DOMAIN pt_workers : pt_workers[i].pc = "done")
        => doc_processor = ProcessorBefore

\* ------------------------------------------------ the frame of store_chunks
\* the step is a store_chunks call for the source: a store that got as far
\* as the backend, or the delete of a source (store_chunks with no chunks)
StoreChunksStep(source_id) ==
    /\ vs_last'.source_id = source_id
    /\ \/ vs_last'.op = "store" /\ vs_last'.outcome = "ok"
       \/ vs_last'.op = "delete"

\* C29: store_chunks(source_id, chunks) changes only the chunks of
\* source_id: for every other source the stored chunks (index, content,
\* embedding) and their number are the same before and after the call, on
\* both backends, whether chunks is empty or not.
C29_Frame ==
    [][\A source_id \in Sources, other \in Sources :
           (StoreChunksStep(source_id) /\ other # source_id) =>
               /\ StoredChunks(other)' = StoredChunks(other)
               /\ StoredCount(other)' = StoredCount(other)]_vars
C29_Witness ==
    /\ vs_last.op = "store"
    /\ vs_last.outcome = "ok"
    /\ vs_last.source_id = "A"
    /\ backend = "supabase"
    /\ Len(vs_last.chunks) = 2
    /\ StoredCount("A") = 2
    /\ StoredCount("B") = 2
C29_WitnessEmpty ==
    /\ vs_last.op = "delete"
    /\ vs_last.source_id = "B"
    /\ StoredCount("B") = 0
    /\ StoredCount("A") = 2

\* ------------------------------------------ the two backends side by side
\* Both stores start empty and are given the same store_chunks calls.
InitTwin ==
    /\ backend = "both"
    /\ collection = {}
    /\ document_chunks = EmptyBag
    /\ vs_last = NoServiceCall
    /\ CeIdle /\ DdIdle /\ DqIdle /\ ExtIdle

\* store_chunks(source_id, chunks) on the Chroma store and on the Supabase
\* store, with the arguments VectorStoreService hands to its backend
TwinStoreChunks ==
    /\ \E source_id \in Sources, input \in StoreInputs :
        /\ Len(input.chunks) = Len(input.embeddings)
        /\ LET chunks == ChunkRecords(source_id, input.chunks, input.embeddings)
           IN  /\ collection' = ChromaStoreChunks(collection, source_id, chunks)
               /\ document_chunks' = SupabaseStoreChunks(document_chunks, source_id, chunks)
        /\ vs_last' = [op |-> "store", source_id |-> source_id,
                       chunks |-> input.chunks, embeddings |-> input.embeddings,
                       query |-> NoQuery, outcome |-> "ok", matches |-> <<>>]
    /\ UNCHANGED <<backend, ce_vars, dd_vars, dq_vars, ext_vars>>

NextTwin == TwinStoreChunks
SpecTwin == InitTwin /\ [][NextTwin]_vars

\* the lists the Chroma store, and the Supabase store, can return for a query
ChromaAnswers(q) ==
    ChromaQuery(collection, q.query_embedding, q.limit, q.source_ids, q.min_relevance)
SupabaseAnswers(q) ==
    SupabaseQuery(document_chunks, q.query_embedding, q.limit, q.source_ids,
                  q.min_relevance)
\* the two stores hold the same chunks, each once
SameContent ==
    /\ \A e \in collection :
           CopiesIn(SupabaseRow(e.metadata.source_id,
                                [chunk_index |-> e.metadata.chunk_index,
                                 content |-> e.document, embedding |-> e.embedding,
                                 token_count |-> Len(Split(e.document))]),
                    document_chunks) = 1
    /\ BagCardinality(document_chunks) = Cardinality(collection)

\* C30: given the same sequence of store_chunks calls, the Chroma store and
\* the Supabase store return the same match list for every query
\* (embedding, limit, source_ids, min_relevance), up to the order of matches
\* of equal relevance: the lists the one can return are the lists the other
\* can return.
C30_SameAnswers ==
    \A q \in Queries : ChromaAnswers(q) = SupabaseAnswers(q)
\* the same for stores that hold the same chunks
C30_SameAnswersOnSameContent == SameContent => C30_SameAnswers
====
